---------------------------- MODULE Spec2Model ----------------------------
(***************************************************************************)
(* State-machine model of the clawplayspokemon programs:                   *)
(*   - RTMPStreamer (src/python/compositor.py): named pipes, the encoder   *)
(*     process, the bounded frame queue, the audio buffer and the two      *)
(*     writer threads;                                                     *)
(*   - ClawPlaysPokemon (src/python-old/main.py): run()/shutdown() and the *)
(*     asyncio loops (emulator, vote poll, stream);                        *)
(*   - Emulator (src/python-old/emulator.py): the timed button hold.       *)
(*   - OverlayPipeWriter, FFmpegPipeline and main()                        *)
(*     (src/compositor/compositor.py): the overlay compositor, a second    *)
(*     program with its own encoder process.                               *)
(*                                                                         *)
(* Audio samples are kept run-length encoded: a run is n consecutive       *)
(* samples of one stored value v; id is the position, in the stream of     *)
(* all samples ever appended, of the run's first sample (id = 0 marks      *)
(* zero padding, which was never appended).  The slices of the code        *)
(* ([:n], [n:], [-n:]) are computed on runs, so the buffer is modelled at  *)
(* its real size.                                                          *)
(***************************************************************************)
EXTENDS Integers, Sequences, FiniteSets, TLC

\* ------------------------------------------------------------ constants
AUDIO_SAMPLE_RATE == 48000
AUDIO_CHANNELS == 2
FRAME_QUEUE_MAXSIZE == 5
BUTTON_HOLD_FRAMES == 8
POST_MOVE_SCREENSHOT_FRAMES == 20
INT16_MIN == -32768
INT16_MAX == 32767
VALID_BUTTONS == {"up", "down", "left", "right", "a", "b", "start", "select"}

\* send_audio: max_samples = AUDIO_SAMPLE_RATE * AUDIO_CHANNELS // 2
max_samples == (AUDIO_SAMPLE_RATE * AUDIO_CHANNELS) \div 2
\* _audio_writer_loop: samples_per_chunk = AUDIO_SAMPLE_RATE * AUDIO_CHANNELS // 30
samples_per_chunk == (AUDIO_SAMPLE_RATE * AUDIO_CHANNELS) \div 30

\* --------------------------------------------------------------- bounds
\* send_audio calls that reach the buffer, frames rendered, window ids.
MaxAppends == 3
MaxFrames == 7
MaxWindow == 2
\* Frames rendered in the lifecycle specification (enough for the video
\* writer to hold one frame while another waits in the queue).
MaxLifecycleFrames == 2
MaxMediaFrames == 1

\* The audio blocks a tick may hand to send_audio: n samples of raw value x.
\* 1600 is one 60 Hz tick of 48 kHz stereo; the large blocks stand for a
\* producer burst and make the trim happen within MaxAppends calls.
AudioBlocks ==
    { [n |-> 1600, x |-> 16000],
      [n |-> 47000, x |-> -12000],
      [n |-> 50000, x |-> 100] }
\* volume_boost in tenths: 3.0 is send_audio's default, 5.0 the default of
\* AUDIO_VOLUME_BOOST, 1.5 a setting with fractional products.
Gains == {15, 30, 50}

DefaultGain == 50

Pipes == {"video", "audio"}

\* ------------------------------------------------- run-length sequences
Run(id, n, v) == [id |-> id, n |-> n, v |-> v]

RECURSIVE SampleLen(_)
SampleLen(b) ==
    IF b = <<>> THEN 0 ELSE Head(b).n + SampleLen(Tail(b))

\* np.zeros(k, dtype=int16)
Zeros(k) == IF k = 0 THEN <<>> ELSE <<Run(0, k, 0)>>

\* np.concatenate([a, b])
Concatenate(a, b) == a \o b

\* b[:k]
RECURSIVE SliceTo(_, _)
SliceTo(b, k) ==
    IF k <= 0 \/ b = <<>> THEN <<>>
    ELSE IF Head(b).n <= k
         THEN <<Head(b)>> \o SliceTo(Tail(b), k - Head(b).n)
         ELSE <<Run(Head(b).id, k, Head(b).v)>>

\* b[k:]
RECURSIVE SliceFrom(_, _)
SliceFrom(b, k) ==
    IF k <= 0 \/ b = <<>> THEN b
    ELSE IF Head(b).n <= k
         THEN SliceFrom(Tail(b), k - Head(b).n)
         ELSE <<Run(IF Head(b).id = 0 THEN 0 ELSE Head(b).id + k,
                    Head(b).n - k, Head(b).v)>> \o Tail(b)

\* b[-k:] for k > 0: the last k samples, the whole array when it is shorter.
SliceLast(b, k) ==
    IF SampleLen(b) <= k THEN b ELSE SliceFrom(b, SampleLen(b) - k)

\* Canonical form of a run sequence (adjacent runs that continue each other
\* merged): two run sequences hold the same samples iff their Norm is equal.
RECURSIVE Norm(_)
Norm(b) ==
    IF Len(b) <= 1 THEN b
    ELSE LET r == Norm(Tail(b))
             h == Head(b)
             g == Head(r)
             joins == /\ h.v = g.v
                      /\ \/ h.id = 0 /\ g.id = 0
                         \/ h.id # 0 /\ g.id = h.id + h.n
         IN IF joins THEN <<Run(h.id, h.n + g.n, h.v)>> \o Tail(r)
            ELSE <<h>> \o r

\* ----------------------------------------------------- gain and clamping
\* Integer part of a / d, rounded toward zero (ndarray.astype(int16)).
TruncDiv(a, d) == IF a >= 0 THEN a \div d ELSE -((-a) \div d)

Clip(x, lo, hi) == IF x < lo THEN lo ELSE IF x > hi THEN hi ELSE x

\* A gain without the clip: the int16 conversion wraps around.
BoostWraps(x, gain10) ==
    ((TruncDiv(x * gain10, 10) - INT16_MIN) % 65536) + INT16_MIN

\* (audio_data.astype('float32') * volume_boost).clip(-32768, 32767).astype(int16)
\* gain10 is volume_boost in tenths; the clip is applied before the truncation.
Boost(x, gain10) ==
    TruncDiv(Clip(x * gain10, INT16_MIN * 10, INT16_MAX * 10), 10)


\* ------------------------------------------------------- optional values
\* Python's Optional: None is the empty set, a value x is {x}.
None == {}
Some(x) == {x}
Get(o) == CHOOSE x \in o : TRUE

Min(a, b) == IF a <= b THEN a ELSE b

\* ---------------------------------------------------------------- state
VARIABLES
    program,            \* which of the two programs runs: "emulator" | "compositor"
    \* ClawPlaysPokemon (main.py)
    RTMP_URL,           \* the RTMP_URL setting is non-empty
    app_running,        \* self.running
    rtmp_streamer,      \* self.rtmp_streamer is not None
    output,             \* self.output is not None (LocalPreviewOutput)
    mpc,                \* position of run() / shutdown() / RTMPStreamer.stop()
    epc,                \* position of the emulator_loop iteration
    rpc,                \* position of the stream_loop iteration
    ppc,                \* position of the vote_poll_loop iteration
    audio_data,         \* the block the current tick hands to send_audio
    last_window_id,     \* Optional[int]
    last_winner,        \* Optional[str]
    last_winner_votes,
    current_tallies,
    time_remaining,
    recent_voters,
    post_move_screenshot_frames,
    \* Emulator (emulator.py)
    held_button,        \* Optional[str]
    hold_frames_remaining,
    pyboy_pressed,      \* buttons down in the emulated console
    \* RTMPStreamer (compositor.py)
    running,
    ffmpeg_process,     \* "None" | "alive" | "exited"
    pipe_exists,        \* [Pipes -> BOOLEAN]: the FIFO file is on disk
    reader,             \* [Pipes -> "none" | "open" | "closed"]: encoder's read end
    video_thread,       \* "unstarted" | "open" | "loop" | "get" | "write" | "done"
    audio_thread,       \* "unstarted" | "open" | "loop" | "timer" | "write" | "done"
    frame_queue,        \* queue.Queue(maxsize=5) of frame numbers
    frame_bytes,        \* the frame the video writer holds (0: none)
    audio_buffer,       \* run sequence
    chunk,              \* the chunk the audio writer holds
    \* history (never read by the program's actions)
    n_frames,           \* send_frame calls so far; the n-th renders frame n
    send_frame_ret,     \* Optional[bool]: what the last send_frame call returned
    n_send_audio,       \* send_audio calls so far
    appended,           \* every sample ever appended, in order
    send_audio_ret,     \* Optional[bool]: what the last send_audio call returned
    overflowed,         \* the last append exceeded max_samples, no pop since
    launches,           \* encoder processes launched by RTMPStreamer.start
    clears,             \* [Pipes -> Nat]: running = False assignments by each writer
    opens,              \* [Pipes -> Nat]: completed pipe opens by each writer
    late_writes,        \* [Pipes -> Nat]: pipe writes begun after a writer cleared running
    writer_cleared,     \* a writer thread has cleared running
    writer_error,       \* [Pipes -> the exception its writer caught, "none" if none]
    AUDIO_VOLUME_BOOST, \* main.py:54, the configured gain in tenths
    files,              \* [SavePaths -> Optional file contents]: the data directory
    save_kind,          \* Optional: the save call in progress, "state" or "screenshot"
    save_pc,            \* where that call is: "idle", "write", "replace"
    save_ret,           \* Optional[bool]: what the last save call returned
    n_saves,            \* save calls so far; the n-th writes version n
    final_at_call,      \* what the final path held when the call in progress began
    status_fetch,       \* vote_poll_loop's local status: "none" outside an iteration, "ok", "failed", "malformed"
    voters_known,       \* the list the latest successful voters request returned
    start_outcome,      \* how the supervisor's start() ended: "none" before it has
    stop_trace,         \* the steps RTMPStreamer.stop() has performed, in order
    OUTPUT_RTMP_URL,    \* overlay compositor: config.output_rtmp_url is set
    cpc,                \* overlay compositor: where main() is
    process,            \* FFmpegPipeline.process: "None", "alive" or "exited"
    pipeline_launches,  \* Popen calls made by FFmpegPipeline.start
    overlay_running,    \* OverlayPipeWriter._running
    overlay_thread,     \* OverlayPipeWriter._thread: where _write_loop is
    pipe_ready,         \* OverlayPipeWriter._pipe_ready is set
    shutdown_event,     \* main's shutdown_event is set
    overlay_pipe,       \* the overlay pipe file exists
    overlay_reader,     \* ffmpeg's read end of the overlay pipe
    observed,           \* Optional[int]: window id of the latest poll result with a record
    polled_winner,      \* the result that began the current run names a winner
    press_count,        \* [WindowIds -> 0..2]: press_button calls per window (saturating)
    last_press,         \* Optional[str]: argument of the latest press_button call
    press_ret,          \* Optional[bool]: what that call returned
    press_over,         \* PressButtonCall: what the call found held ("none", "same", "other")
    run_len,            \* consecutive poll results naming window `observed` (0..2, saturating)
    run_presses,        \* press_button calls made during that run (0..2, saturating)
    ticks_since_arm,    \* emulator ticks since the countdown was armed (saturating)
    captures,           \* deferred screenshot captures since the countdown was armed
    script_pos          \* polls of the scripted scenario delivered so far

appVars == <<RTMP_URL, app_running, rtmp_streamer, output, mpc>>
loopVars == <<epc, rpc, ppc, audio_data>>
voteVars == <<last_window_id, last_winner, last_winner_votes, current_tallies,
              time_remaining, recent_voters>>
emuVars == <<held_button, hold_frames_remaining, pyboy_pressed>>
shotVars == <<post_move_screenshot_frames, ticks_since_arm, captures>>
procVars == <<ffmpeg_process, pipe_exists, reader, launches>>
videoVars == <<video_thread, frame_queue, frame_bytes>>
audioVars == <<audio_thread, audio_buffer, chunk>>
frameLogVars == <<n_frames, send_frame_ret>>
audioLogVars == <<n_send_audio, appended, send_audio_ret, overflowed>>
writerLogVars == <<clears, opens, late_writes, writer_cleared, writer_error>>
pollGhostVars == <<observed, polled_winner, press_count, last_press, press_ret, press_over, run_len,
                  run_presses>>
pollLogVars == <<pollGhostVars, script_pos>>

overlayVars == <<OUTPUT_RTMP_URL, cpc, process, pipeline_launches, overlay_running,
                overlay_thread, pipe_ready, shutdown_event, overlay_pipe,
                overlay_reader>>

fetchVars == <<status_fetch, voters_known>>
fileVars == <<files, save_kind, save_pc, save_ret, n_saves, final_at_call>>

vars == <<program, fileVars, AUDIO_VOLUME_BOOST, start_outcome, fetchVars, overlayVars, stop_trace, appVars, loopVars, voteVars, emuVars, shotVars, running, procVars,
          videoVars, audioVars, frameLogVars, audioLogVars, writerLogVars,
          pollLogVars>>


\* ------------------------------------------------------------- Emulator
\* str.lower() on the button names used here.
Lower(button) ==
    CASE button = "A" -> "a"
      [] button = "B" -> "b"
      [] OTHER -> button

\* A release that leaves the frame counter as it was.
ReleaseCurrentButtonKeepsFrames ==
    IF held_button # None
    THEN /\ pyboy_pressed' = pyboy_pressed \ held_button
         /\ held_button' = None
         /\ UNCHANGED hold_frames_remaining
    ELSE UNCHANGED emuVars

\* Emulator._release_current_button (as the new values of the hold state)
ReleaseCurrentButton ==
    IF held_button # None
    THEN /\ pyboy_pressed' = pyboy_pressed \ held_button
         /\ held_button' = None
         /\ hold_frames_remaining' = 0
    ELSE UNCHANGED emuVars

\* A validity test that accepts every identifier.
PressButtonValidAny(button) == TRUE

\* Emulator.press_button: FALSE is the early return for an invalid button.
PressButtonValid(button) == Lower(button) \in VALID_BUTTONS

\* A press that presses the new button first and releases the held one after.
PressButtonThenRelease(button) ==
    IF ~PressButtonValid(button)
    THEN UNCHANGED emuVars
    ELSE /\ pyboy_pressed' = (pyboy_pressed \cup {Lower(button)}) \ held_button
         /\ held_button' = Some(Lower(button))
         /\ hold_frames_remaining' = BUTTON_HOLD_FRAMES

PressButton(button) ==
    IF ~PressButtonValid(button)
    THEN UNCHANGED emuVars
    ELSE \* release any held button, then press and hold the new one
         /\ pyboy_pressed' = (pyboy_pressed \ held_button) \cup {Lower(button)}
         /\ held_button' = Some(Lower(button))
         /\ hold_frames_remaining' = BUTTON_HOLD_FRAMES

\* what a press_button(button) call finds held
HeldAtCall(button) ==
    IF held_button = None THEN "none"
    ELSE IF held_button = Some(Lower(button)) THEN "same"
    ELSE "other"

\* A tick that releases the button one frame early.
EmulatorTickEarly ==
    IF hold_frames_remaining > 0
    THEN IF hold_frames_remaining - 1 <= 1
         THEN /\ pyboy_pressed' = pyboy_pressed \ held_button
              /\ held_button' = None
              /\ hold_frames_remaining' = 0
         ELSE /\ hold_frames_remaining' = hold_frames_remaining - 1
              /\ UNCHANGED <<held_button, pyboy_pressed>>
    ELSE UNCHANGED emuVars

\* Emulator.tick: the button hold / release part.
EmulatorTick ==
    IF hold_frames_remaining > 0
    THEN IF hold_frames_remaining - 1 = 0
         THEN \* _release_current_button()
              /\ pyboy_pressed' = pyboy_pressed \ held_button
              /\ held_button' = None
              /\ hold_frames_remaining' = 0
         ELSE /\ hold_frames_remaining' = hold_frames_remaining - 1
              /\ UNCHANGED <<held_button, pyboy_pressed>>
    ELSE UNCHANGED emuVars

\* ---------------------------------------------------- vote state machine
WindowIds == (1..MaxWindow) \cup {5, 6}
Winners == {None, Some(""), Some("a"), Some("B"), Some("x")}
TallyLists == << <<>>, <<[button |-> "a", count |-> 12, percentage |-> 100]>> >>

\* Python truthiness of an Optional[str]
Truthy(o) == o # None /\ o # Some("")

\* A previousResult record of the /status response.
PrevResult(id, winner, votes) ==
    [windowId |-> id, winner |-> winner, totalVotes |-> votes]

\* The /status responses the poll loop may receive: previousResult is absent
\* (None) or a record with a window id, an optional winner and a vote total.
Statuses ==
    { [tallies |-> c[1], timeRemaining |-> c[2], prev |-> p] :
        c \in { <<TallyLists[1], 10>>, <<TallyLists[2], 3>> },
        p \in {None} \cup
              { Some(PrevResult(id, w, IF Truthy(w) THEN 12 ELSE 0)) :
                  id \in 1..MaxWindow, w \in Winners } }

\* A comparison that takes every poll result for a new window.
IsNewWindowAlways(window_id) == TRUE

\* main.py:234  window_id != self.last_window_id
IsNewWindow(window_id) == Some(window_id) # last_window_id

\* An update that records the window only when its injection succeeded.
UpdateStateFromApiOnSuccess(status) ==
    LET prev == status.prev
        isNew == prev # None /\ IsNewWindow(Get(prev).windowId)
        inject == isNew /\ Truthy(Get(prev).winner)
        id == Get(prev).windowId
    IN  /\ current_tallies' = status.tallies
        /\ time_remaining' = status.timeRemaining
        /\ last_window_id' = IF isNew /\ (inject => PressButtonValid(Get(Get(prev).winner)))
                           THEN Some(id) ELSE last_window_id
        /\ IF inject
           THEN /\ last_winner' = Get(prev).winner
                /\ last_winner_votes' = Get(prev).totalVotes
                /\ PressButton(Get(Get(prev).winner))
                /\ post_move_screenshot_frames' = POST_MOVE_SCREENSHOT_FRAMES
                /\ ticks_since_arm' = 0
                /\ captures' = 0
                /\ press_count' = [press_count EXCEPT ![id] = Min(@ + 1, 2)]
                /\ last_press' = Get(prev).winner
                /\ press_ret' = Some(PressButtonValid(Get(Get(prev).winner)))
                /\ UNCHANGED press_over
           ELSE /\ UNCHANGED <<last_winner, last_winner_votes, emuVars,
                               shotVars, press_count, last_press, press_ret,
                               press_over>>
        /\ observed' = IF prev # None THEN Some(id) ELSE observed
        /\ run_len' = IF prev = None THEN run_len
                      ELSE IF observed = Some(id) THEN Min(run_len + 1, 2)
                      ELSE 1
        /\ run_presses' = IF prev = None THEN run_presses
                          ELSE Min((IF observed = Some(id) THEN run_presses ELSE 0)
                                   + (IF inject THEN 1 ELSE 0), 2)
        /\ polled_winner' = IF prev # None /\ observed # Some(id)
                            THEN Truthy(Get(prev).winner)
                            ELSE polled_winner

\* An update that clears the last winner on a new window without a winner.
UpdateStateFromApiClears(status) ==
    LET prev == status.prev
        isNew == prev # None /\ IsNewWindow(Get(prev).windowId)
        inject == isNew /\ Truthy(Get(prev).winner)
        id == Get(prev).windowId
    IN  /\ current_tallies' = status.tallies
        /\ time_remaining' = status.timeRemaining
        /\ last_window_id' = IF isNew THEN Some(id) ELSE last_window_id
        /\ IF inject
           THEN /\ last_winner' = Get(prev).winner
                /\ last_winner_votes' = Get(prev).totalVotes
                /\ PressButton(Get(Get(prev).winner))
                /\ post_move_screenshot_frames' = POST_MOVE_SCREENSHOT_FRAMES
                /\ ticks_since_arm' = 0
                /\ captures' = 0
                /\ press_count' = [press_count EXCEPT ![id] = Min(@ + 1, 2)]
                /\ last_press' = Get(prev).winner
                /\ press_ret' = Some(PressButtonValid(Get(Get(prev).winner)))
                /\ UNCHANGED press_over
           ELSE /\ last_winner' = IF isNew THEN None ELSE last_winner
                /\ last_winner_votes' = IF isNew THEN 0 ELSE last_winner_votes
                /\ UNCHANGED <<emuVars,
                               shotVars, press_count, last_press, press_ret,
                               press_over>>
        /\ observed' = IF prev # None THEN Some(id) ELSE observed
        /\ run_len' = IF prev = None THEN run_len
                      ELSE IF observed = Some(id) THEN Min(run_len + 1, 2)
                      ELSE 1
        /\ run_presses' = IF prev = None THEN run_presses
                          ELSE Min((IF observed = Some(id) THEN run_presses ELSE 0)
                                   + (IF inject THEN 1 ELSE 0), 2)
        /\ polled_winner' = IF prev # None /\ observed # Some(id)
                            THEN Truthy(Get(prev).winner)
                            ELSE polled_winner

\* ClawPlaysPokemon.update_state_from_api(status)
UpdateStateFromApi(status) ==
    LET prev == status.prev
        isNew == prev # None /\ IsNewWindow(Get(prev).windowId)
        inject == isNew /\ Truthy(Get(prev).winner)
        id == Get(prev).windowId
    IN  /\ current_tallies' = status.tallies
        /\ time_remaining' = status.timeRemaining
        /\ last_window_id' = IF isNew THEN Some(id) ELSE last_window_id
        /\ IF inject
           THEN /\ last_winner' = Get(prev).winner
                /\ last_winner_votes' = Get(prev).totalVotes
                /\ PressButton(Get(Get(prev).winner))
                /\ post_move_screenshot_frames' = POST_MOVE_SCREENSHOT_FRAMES
                /\ ticks_since_arm' = 0
                /\ captures' = 0
                /\ press_count' = [press_count EXCEPT ![id] = Min(@ + 1, 2)]
                /\ last_press' = Get(prev).winner
                /\ press_ret' = Some(PressButtonValid(Get(Get(prev).winner)))
                /\ UNCHANGED press_over
           ELSE /\ UNCHANGED <<last_winner, last_winner_votes, emuVars,
                               shotVars, press_count, last_press, press_ret,
                               press_over>>
        /\ observed' = IF prev # None THEN Some(id) ELSE observed
        /\ run_len' = IF prev = None THEN run_len
                      ELSE IF observed = Some(id) THEN Min(run_len + 1, 2)
                      ELSE 1
        /\ run_presses' = IF prev = None THEN run_presses
                          ELSE Min((IF observed = Some(id) THEN run_presses ELSE 0)
                                   + (IF inject THEN 1 ELSE 0), 2)
        /\ polled_winner' = IF prev # None /\ observed # Some(id)
                            THEN Truthy(Get(prev).winner)
                            ELSE polled_winner

\* A countdown that captures on every decrement.
PostMoveCountdownEveryTick ==
    /\ ticks_since_arm' = Min(ticks_since_arm + 1, POST_MOVE_SCREENSHOT_FRAMES + 1)
    /\ IF post_move_screenshot_frames > 0
       THEN /\ post_move_screenshot_frames' = post_move_screenshot_frames - 1
            /\ captures' = Min(captures + 1, 2)
       ELSE UNCHANGED <<post_move_screenshot_frames, captures>>

\* A countdown that goes on capturing on the ticks after it reached zero.
PostMoveCountdownRepeats ==
    /\ ticks_since_arm' = Min(ticks_since_arm + 1, POST_MOVE_SCREENSHOT_FRAMES + 1)
    /\ IF post_move_screenshot_frames > 0
       THEN /\ post_move_screenshot_frames' = post_move_screenshot_frames - 1
            /\ captures' = IF post_move_screenshot_frames - 1 = 0
                           THEN Min(captures + 1, 2)
                           ELSE captures
       ELSE /\ captures' = IF ticks_since_arm <= POST_MOVE_SCREENSHOT_FRAMES
                           THEN Min(captures + 1, 2)
                           ELSE captures
            /\ UNCHANGED post_move_screenshot_frames

\* A countdown that runs two frames per tick.
PostMoveCountdownFast ==
    /\ ticks_since_arm' = Min(ticks_since_arm + 1, POST_MOVE_SCREENSHOT_FRAMES + 1)
    /\ IF post_move_screenshot_frames > 0
       THEN /\ post_move_screenshot_frames' = IF post_move_screenshot_frames >= 2
                                                THEN post_move_screenshot_frames - 2
                                                ELSE 0
            /\ captures' = IF post_move_screenshot_frames - 2 <= 0
                           THEN Min(captures + 1, 2)
                           ELSE captures
       ELSE UNCHANGED <<post_move_screenshot_frames, captures>>

\* emulator_loop, main.py:293-298: the post-move screenshot countdown.
PostMoveCountdown ==
    /\ ticks_since_arm' = Min(ticks_since_arm + 1, POST_MOVE_SCREENSHOT_FRAMES + 1)
    /\ IF post_move_screenshot_frames > 0
       THEN /\ post_move_screenshot_frames' = post_move_screenshot_frames - 1
            /\ captures' = IF post_move_screenshot_frames - 1 = 0
                           THEN Min(captures + 1, 2)
                           ELSE captures
       ELSE UNCHANGED <<post_move_screenshot_frames, captures>>


\* --------------------------------------------------------- RTMPStreamer
\* RTMPStreamer._cleanup_pipes
CleanupPipes == pipe_exists' = [p \in Pipes |-> FALSE]

\* A queue that counts as full one frame too late.
QueueFullAtSix(q) == Len(q) >= FRAME_QUEUE_MAXSIZE + 1

\* queue.Queue.full() for maxsize = 5, as put_nowait tests it
QueueFull(q) == Len(q) >= FRAME_QUEUE_MAXSIZE

\* A trim that keeps the oldest samples instead of the newest.
TrimBufferKeepOldest(buf) ==
    IF SampleLen(buf) > max_samples THEN SliceTo(buf, max_samples) ELSE buf

\* send_audio, compositor.py:623-625: keep the newest max_samples samples
TrimBuffer(buf) ==
    IF SampleLen(buf) > max_samples THEN SliceLast(buf, max_samples) ELSE buf

\* The samples of a chunk that came from the buffer (not padding): how many,
\* and the position of the last one.
RECURSIVE DataLen(_)
DataLen(b) ==
    IF b = <<>> THEN 0
    ELSE (IF Head(b).id = 0 THEN 0 ELSE Head(b).n) + DataLen(Tail(b))

RECURSIVE LastDataPos(_)
LastDataPos(b) ==
    IF b = <<>> THEN 0
    ELSE LET rest == LastDataPos(Tail(b))
         IN  IF rest # 0 THEN rest
             ELSE IF Head(b).id = 0 THEN 0 ELSE Head(b).id + Head(b).n - 1

\* A pop that leaves the second half of the chunk it hands out in the buffer,
\* as a pop racing with an append could.
PopChunkOverlaps(buf) ==
    IF SampleLen(buf) >= samples_per_chunk
    THEN [chunk |-> SliceTo(buf, samples_per_chunk),
          rest |-> SliceFrom(buf, samples_per_chunk \div 2)]
    ELSE IF SampleLen(buf) > 0
    THEN [chunk |-> Concatenate(buf, Zeros(samples_per_chunk - SampleLen(buf))),
          rest |-> <<>>]
    ELSE [chunk |-> Zeros(samples_per_chunk), rest |-> <<>>]

\* A pop that hands out a short buffer without padding it.
PopChunkNoPad(buf) ==
    IF SampleLen(buf) >= samples_per_chunk
    THEN [chunk |-> SliceTo(buf, samples_per_chunk),
          rest |-> SliceFrom(buf, samples_per_chunk)]
    ELSE IF SampleLen(buf) > 0
    THEN [chunk |-> buf, rest |-> <<>>]
    ELSE [chunk |-> Zeros(samples_per_chunk), rest |-> <<>>]

\* A pop that leaves a short buffer in place after handing it out.
PopChunkKeepsShort(buf) ==
    IF SampleLen(buf) >= samples_per_chunk
    THEN [chunk |-> SliceTo(buf, samples_per_chunk),
          rest |-> SliceFrom(buf, samples_per_chunk)]
    ELSE IF SampleLen(buf) > 0
    THEN [chunk |-> Concatenate(buf, Zeros(samples_per_chunk - SampleLen(buf))),
          rest |-> buf]
    ELSE [chunk |-> Zeros(samples_per_chunk), rest |-> <<>>]

\* _audio_writer_loop, compositor.py:556-568: the chunk and the buffer left
PopChunk(buf) ==
    IF SampleLen(buf) >= samples_per_chunk
    THEN [chunk |-> SliceTo(buf, samples_per_chunk),
          rest |-> SliceFrom(buf, samples_per_chunk)]
    ELSE IF SampleLen(buf) > 0
    THEN [chunk |-> Concatenate(buf, Zeros(samples_per_chunk - SampleLen(buf))),
          rest |-> <<>>]
    ELSE [chunk |-> Zeros(samples_per_chunk), rest |-> <<>>]

\* A writer thread's handler for a failed write: self.running = False
WriterClears(p, err) ==
    /\ running' = FALSE
    /\ clears' = [clears EXCEPT ![p] = @ + 1]
    /\ writer_cleared' = TRUE
    /\ writer_error' = [writer_error EXCEPT ![p] = err]

\* A completed pipe write, counted when it comes after a writer's clear.
WriterWrote(p) ==
    late_writes' = IF writer_cleared
                   THEN [late_writes EXCEPT ![p] = Min(@ + 1, 2)]
                   ELSE late_writes

\* ----- the encoder process and its read ends (environment)
\* ffmpeg opens pipe p for reading while the writer thread is in open():
\* both opens complete together.
ReaderConnect(p) ==
    /\ ffmpeg_process = "alive"
    /\ pipe_exists[p]
    /\ reader[p] = "none"
    /\ IF p = "video" THEN video_thread = "open" ELSE audio_thread = "open"
    /\ reader' = [reader EXCEPT ![p] = "open"]
    /\ opens' = [opens EXCEPT ![p] = @ + 1]
    /\ IF p = "video"
       THEN video_thread' = "loop" /\ UNCHANGED audio_thread
       ELSE audio_thread' = "loop" /\ UNCHANGED video_thread
    /\ UNCHANGED <<program, fileVars, AUDIO_VOLUME_BOOST, start_outcome, fetchVars, overlayVars, stop_trace, appVars, loopVars, voteVars, emuVars, shotVars,
                   running, ffmpeg_process, pipe_exists, launches,
                   frame_queue, frame_bytes, audio_buffer, chunk,
                   frameLogVars, audioLogVars, clears, late_writes,
                   writer_cleared, writer_error, pollLogVars>>

\* ffmpeg closes its read end of pipe p and keeps running.
ReaderClose(p) ==
    /\ ffmpeg_process = "alive"
    /\ reader[p] = "open"
    /\ reader' = [reader EXCEPT ![p] = "closed"]
    /\ UNCHANGED <<program, fileVars, AUDIO_VOLUME_BOOST, start_outcome, fetchVars, overlayVars, stop_trace, appVars, loopVars, voteVars, emuVars, shotVars,
                   running, ffmpeg_process, pipe_exists, launches, videoVars,
                   audioVars, frameLogVars, audioLogVars, writerLogVars,
                   pollLogVars>>

ClosedReaders == [p \in Pipes |-> IF reader[p] = "open" THEN "closed" ELSE reader[p]]

\* The encoder process exits on its own.
FfmpegExit ==
    /\ ffmpeg_process = "alive"
    /\ ffmpeg_process' = "exited"
    /\ reader' = ClosedReaders
    /\ UNCHANGED <<program, fileVars, AUDIO_VOLUME_BOOST, start_outcome, fetchVars, overlayVars, stop_trace, appVars, loopVars, voteVars, emuVars, shotVars,
                   running, pipe_exists, launches, videoVars, audioVars,
                   frameLogVars, audioLogVars, writerLogVars, pollLogVars>>

\* ----- _video_writer_loop
\* A video loop test that never sees the flag cleared.
VideoCheckIgnoresFlag ==
    /\ video_thread = "loop"
    /\ video_thread' = "get"
    /\ UNCHANGED <<program, fileVars, AUDIO_VOLUME_BOOST, start_outcome, fetchVars, overlayVars, stop_trace, appVars, loopVars, voteVars, emuVars, shotVars,
                   running, procVars, audio_thread, frame_queue, frame_bytes,
                   audio_buffer, chunk, frameLogVars, audioLogVars,
                   writerLogVars, pollLogVars>>

\* compositor.py:511  while self.running
VideoCheck ==
    /\ video_thread = "loop"
    /\ video_thread' = IF running THEN "get" ELSE "done"
    /\ UNCHANGED <<program, fileVars, AUDIO_VOLUME_BOOST, start_outcome, fetchVars, overlayVars, stop_trace, appVars, loopVars, voteVars, emuVars, shotVars,
                   running, procVars, audio_thread, frame_queue, frame_bytes,
                   audio_buffer, chunk, frameLogVars, audioLogVars,
                   writerLogVars, pollLogVars>>

\* A get that takes the newest frame of the queue instead of the oldest.
VideoGetNewest ==
    /\ video_thread = "get"
    /\ IF frame_queue # <<>>
       THEN /\ frame_bytes' = frame_queue[Len(frame_queue)]
            /\ frame_queue' = SubSeq(frame_queue, 1, Len(frame_queue) - 1)
            /\ video_thread' = "write"
       ELSE /\ video_thread' = "loop"
            /\ UNCHANGED <<frame_queue, frame_bytes>>
    /\ UNCHANGED <<program, fileVars, AUDIO_VOLUME_BOOST, start_outcome, fetchVars, overlayVars, stop_trace, appVars, loopVars, voteVars, emuVars, shotVars,
                   running, procVars, audioVars, frameLogVars, audioLogVars,
                   writerLogVars, pollLogVars>>

\* compositor.py:513  self._frame_queue.get(timeout=0.1), queue.Empty on timeout
VideoGet ==
    /\ video_thread = "get"
    /\ IF frame_queue # <<>>
       THEN /\ frame_bytes' = Head(frame_queue)
            /\ frame_queue' = Tail(frame_queue)
            /\ video_thread' = "write"
       ELSE /\ video_thread' = "loop"
            /\ UNCHANGED <<frame_queue, frame_bytes>>
    /\ UNCHANGED <<program, fileVars, AUDIO_VOLUME_BOOST, start_outcome, fetchVars, overlayVars, stop_trace, appVars, loopVars, voteVars, emuVars, shotVars,
                   running, procVars, audioVars, frameLogVars, audioLogVars,
                   writerLogVars, pollLogVars>>

\* compositor.py:514-525  f.write(frame_bytes); f.flush() and the handlers
VideoWrite(outcome) ==
    /\ video_thread = "write"
    /\ frame_bytes' = 0
    /\ CASE outcome = "ok" ->
              /\ reader["video"] = "open"
              /\ video_thread' = "loop"
              /\ WriterWrote("video")
              /\ UNCHANGED <<running, clears, writer_cleared, writer_error>>
         [] outcome = "BrokenPipeError" ->
              /\ reader["video"] = "closed"
              /\ video_thread' = "done"
              /\ WriterClears("video", outcome)
              /\ UNCHANGED late_writes
         [] outcome = "Exception" ->
              /\ video_thread' = "done"
              /\ WriterClears("video", outcome)
              /\ UNCHANGED late_writes
    /\ UNCHANGED <<program, fileVars, AUDIO_VOLUME_BOOST, start_outcome, fetchVars, overlayVars, stop_trace, appVars, loopVars, voteVars, emuVars, shotVars,
                   procVars, audioVars, frame_queue, frameLogVars,
                   audioLogVars, opens, pollLogVars>>

\* ----- _audio_writer_loop
\* A loop test that never sees the flag cleared.
AudioCheckIgnoresFlag ==
    /\ audio_thread = "loop"
    /\ audio_thread' = "timer"
    /\ UNCHANGED <<program, fileVars, AUDIO_VOLUME_BOOST, start_outcome, fetchVars, overlayVars, stop_trace, appVars, loopVars, voteVars, emuVars, shotVars,
                   running, procVars, videoVars, audio_buffer, chunk,
                   frameLogVars, audioLogVars, writerLogVars, pollLogVars>>

\* compositor.py:547  while self.running
AudioCheck ==
    /\ audio_thread = "loop"
    /\ audio_thread' = IF running THEN "timer" ELSE "done"
    /\ UNCHANGED <<program, fileVars, AUDIO_VOLUME_BOOST, start_outcome, fetchVars, overlayVars, stop_trace, appVars, loopVars, voteVars, emuVars, shotVars,
                   running, procVars, videoVars, audio_buffer, chunk,
                   frameLogVars, audioLogVars, writerLogVars, pollLogVars>>

\* compositor.py:578-580  the chunk is not due yet: sleep 1 ms, test again
AudioSleep ==
    /\ audio_thread = "timer"
    /\ audio_thread' = "loop"
    /\ UNCHANGED <<program, fileVars, AUDIO_VOLUME_BOOST, start_outcome, fetchVars, overlayVars, stop_trace, appVars, loopVars, voteVars, emuVars, shotVars,
                   running, procVars, videoVars, audio_buffer, chunk,
                   frameLogVars, audioLogVars, writerLogVars, pollLogVars>>

\* compositor.py:551-568  the chunk is due: take it under the audio lock
AudioPop ==
    /\ audio_thread = "timer"
    /\ chunk' = PopChunk(audio_buffer).chunk
    /\ audio_buffer' = PopChunk(audio_buffer).rest
    /\ overflowed' = FALSE
    /\ audio_thread' = "write"
    /\ UNCHANGED <<program, fileVars, AUDIO_VOLUME_BOOST, start_outcome, fetchVars, overlayVars, stop_trace, appVars, loopVars, voteVars, emuVars, shotVars,
                   running, procVars, videoVars, frameLogVars, n_send_audio,
                   appended, send_audio_ret, writerLogVars, pollLogVars>>

\* compositor.py:570-584  f.write(chunk.tobytes()); f.flush() and the handlers
AudioWrite(outcome) ==
    /\ audio_thread = "write"
    /\ chunk' = <<>>
    /\ CASE outcome = "ok" ->
              /\ reader["audio"] = "open"
              /\ audio_thread' = "loop"
              /\ WriterWrote("audio")
              /\ UNCHANGED <<running, clears, writer_cleared, writer_error>>
         [] outcome = "BrokenPipeError" ->
              /\ reader["audio"] = "closed"
              /\ audio_thread' = "done"
              /\ WriterClears("audio", outcome)
              /\ UNCHANGED late_writes
         [] outcome = "Exception" ->
              /\ audio_thread' = "done"
              /\ WriterClears("audio", outcome)
              /\ UNCHANGED late_writes
    /\ UNCHANGED <<program, fileVars, AUDIO_VOLUME_BOOST, start_outcome, fetchVars, overlayVars, stop_trace, appVars, loopVars, voteVars, emuVars, shotVars,
                   procVars, videoVars, audio_buffer, frameLogVars,
                   audioLogVars, opens, pollLogVars>>

WriteOutcomes == {"ok", "BrokenPipeError", "Exception"}


\* ----- send_frame / send_audio, called from the asyncio loops
\* asyncio runs one task at a time: a task starts its next synchronous
\* stretch only while the other loops are suspended at an await.
AsyncIdle == epc = "sleep" /\ rpc = "sleep"

LoopsRunning == program = "emulator" /\ mpc = "loops" /\ app_running

\* stream_loop, main.py:348-356: the iteration reaches rtmp_streamer.send_frame
StreamLoopUpTo(limit) ==
    /\ LoopsRunning /\ AsyncIdle
    /\ rtmp_streamer /\ running
    /\ n_frames < limit
    /\ rpc' = "send_frame"
    /\ UNCHANGED <<program, fileVars, AUDIO_VOLUME_BOOST, start_outcome, fetchVars, overlayVars, stop_trace, appVars, epc, ppc, audio_data, voteVars, emuVars,
                   shotVars, running, procVars, videoVars, audioVars,
                   frameLogVars, audioLogVars, writerLogVars, pollLogVars>>

\* send_frame, compositor.py:590-591  if not self.running: return False
SendFrameCheck ==
    /\ rpc = "send_frame"
    /\ n_frames' = n_frames + 1
    /\ IF running
       THEN /\ rpc' = "render"
            /\ send_frame_ret' = None
       ELSE /\ rpc' = "sleep"
            /\ send_frame_ret' = Some(FALSE)
    /\ UNCHANGED <<program, fileVars, AUDIO_VOLUME_BOOST, start_outcome, fetchVars, overlayVars, stop_trace, appVars, epc, ppc, audio_data, voteVars, emuVars,
                   shotVars, running, procVars, videoVars, audioVars,
                   audioLogVars, writerLogVars, pollLogVars>>

\* send_frame, compositor.py:594 and 599-601: render_frame(state) returns the
\* frame, or raises and the handler returns False
SendFrameRender(renderOk) ==
    /\ rpc = "render"
    /\ IF renderOk
       THEN /\ rpc' = "put"
            /\ UNCHANGED send_frame_ret
       ELSE /\ rpc' = "sleep"
            /\ send_frame_ret' = Some(FALSE)
    /\ UNCHANGED <<program, fileVars, AUDIO_VOLUME_BOOST, start_outcome, fetchVars, overlayVars, stop_trace, appVars, epc, ppc, audio_data, voteVars, emuVars,
                   shotVars, running, procVars, videoVars, audioVars,
                   n_frames, audioLogVars, writerLogVars, pollLogVars>>

\* A put that never refuses a frame.
PutNowaitGrow(q, frame) == [queue |-> Append(q, frame), ret |-> TRUE]

\* put_nowait, compositor.py:595-598: what the queue becomes and the result
PutNowait(q, frame) ==
    IF QueueFull(q)
    THEN [queue |-> q, ret |-> FALSE]
    ELSE [queue |-> Append(q, frame), ret |-> TRUE]

\* send_frame, compositor.py:595-598: put_nowait and the queue.Full handler
SendFramePut ==
    /\ rpc = "put"
    /\ rpc' = "sleep"
    /\ LET put == PutNowait(frame_queue, n_frames)
       IN  /\ frame_queue' = put.queue
           /\ send_frame_ret' = Some(put.ret)
    /\ UNCHANGED <<program, fileVars, AUDIO_VOLUME_BOOST, start_outcome, fetchVars, overlayVars, stop_trace, appVars, epc, ppc, audio_data, voteVars, emuVars,
                   shotVars, running, procVars, video_thread, frame_bytes,
                   audioVars, n_frames, audioLogVars, writerLogVars,
                   pollLogVars>>

\* An emulator loop that ticks only while its streamer, if any, is running.
EmulatorLoopNeedsStream(block) ==
    /\ LoopsRunning /\ AsyncIdle
    /\ rtmp_streamer => running
    /\ EmulatorTick
    /\ IF rtmp_streamer /\ running
       THEN /\ n_send_audio < MaxAppends
            /\ audio_data' = block
            /\ epc' = "send_audio"
            /\ UNCHANGED shotVars
       ELSE /\ PostMoveCountdown
            /\ UNCHANGED <<epc, audio_data>>
    /\ UNCHANGED <<program, fileVars, AUDIO_VOLUME_BOOST, start_outcome, fetchVars, overlayVars, stop_trace, appVars, rpc, ppc, voteVars, running, procVars,
                   videoVars, audioVars, frameLogVars, audioLogVars,
                   writerLogVars, pollLogVars>>

\* emulator_loop, main.py:278-309: tick, then send_audio when the streamer runs
EmulatorLoop(block) ==
    /\ LoopsRunning /\ AsyncIdle
    /\ EmulatorTick
    /\ IF rtmp_streamer /\ running
       THEN /\ n_send_audio < MaxAppends
            /\ audio_data' = block
            /\ epc' = "send_audio"
            /\ UNCHANGED shotVars
       ELSE /\ PostMoveCountdown
            /\ UNCHANGED <<epc, audio_data>>
    /\ UNCHANGED <<program, fileVars, AUDIO_VOLUME_BOOST, start_outcome, fetchVars, overlayVars, stop_trace, appVars, rpc, ppc, voteVars, running, procVars,
                   videoVars, audioVars, frameLogVars, audioLogVars,
                   writerLogVars, pollLogVars>>

\* send_audio, compositor.py:607-608  if not self.running: return False
SendAudioCheck ==
    /\ epc = "send_audio"
    /\ n_send_audio' = n_send_audio + 1
    /\ IF running
       THEN /\ epc' = "append"
            /\ send_audio_ret' = None
            /\ UNCHANGED shotVars
       ELSE /\ epc' = "sleep"
            /\ send_audio_ret' = Some(FALSE)
            /\ PostMoveCountdown
    /\ UNCHANGED <<program, fileVars, AUDIO_VOLUME_BOOST, start_outcome, fetchVars, overlayVars, stop_trace, appVars, rpc, ppc, audio_data, voteVars, emuVars,
                   running, procVars, videoVars, audioVars, frameLogVars,
                   appended, overflowed, writerLogVars, pollLogVars>>

\* send_audio, compositor.py:610-614: the boosted block as stored samples
BoostedSamples(block, gain10) ==
    <<Run(SampleLen(appended) + 1, block.n, Boost(block.x, gain10))>>

\* An append that waits while the audio writer is inside its pipe write, as
\* it would if the writer kept the audio lock across the write.
SendAudioAppendAfterWrite(gain10) ==
    /\ epc = "append"
    /\ audio_thread # "write"
    /\ epc' = "sleep"
    /\ LET samples == BoostedSamples(audio_data, gain10)
           joined == Concatenate(audio_buffer, samples)
       IN  /\ audio_buffer' = TrimBuffer(joined)
           /\ appended' = Concatenate(appended, samples)
           /\ send_audio_ret' = Some(TRUE)
           /\ overflowed' = (SampleLen(joined) > max_samples)
    /\ PostMoveCountdown
    /\ UNCHANGED <<program, fileVars, AUDIO_VOLUME_BOOST, start_outcome, fetchVars, overlayVars, stop_trace, appVars, rpc, ppc, audio_data, voteVars, emuVars,
                   running, procVars, videoVars, audio_thread, chunk,
                   frameLogVars, n_send_audio, writerLogVars, pollLogVars>>

\* send_audio, compositor.py:618-627: append and trim under the audio lock
SendAudioAppend(gain10) ==
    /\ epc = "append"
    /\ epc' = "sleep"
    /\ LET samples == BoostedSamples(audio_data, gain10)
           joined == Concatenate(audio_buffer, samples)
       IN  /\ audio_buffer' = TrimBuffer(joined)
           /\ appended' = Concatenate(appended, samples)
           /\ send_audio_ret' = Some(TRUE)
           /\ overflowed' = (SampleLen(joined) > max_samples)
    /\ PostMoveCountdown
    /\ UNCHANGED <<program, fileVars, AUDIO_VOLUME_BOOST, start_outcome, fetchVars, overlayVars, stop_trace, appVars, rpc, ppc, audio_data, voteVars, emuVars,
                   running, procVars, videoVars, audio_thread, chunk,
                   frameLogVars, n_send_audio, writerLogVars, pollLogVars>>

\* A poll step that zeroes the time remaining when the status fetch failed.
PollStatusStepResets(status) ==
    /\ LoopsRunning /\ AsyncIdle
    /\ ppc = "status"
    /\ ppc' = "voters"
    /\ status_fetch' = IF status # None THEN "ok" ELSE "failed"
    /\ IF status # None
       THEN UpdateStateFromApi(Get(status))
       ELSE /\ time_remaining' = 0
            /\ UNCHANGED <<last_window_id, last_winner, last_winner_votes,
                           current_tallies, emuVars, shotVars, pollGhostVars>>
    /\ UNCHANGED <<program, fileVars, AUDIO_VOLUME_BOOST, start_outcome, voters_known, overlayVars, stop_trace, appVars, epc, rpc, audio_data, recent_voters,
                   running, procVars, videoVars, audioVars, frameLogVars,
                   audioLogVars, writerLogVars>>

\* vote_poll_loop, main.py:319-321: fetch_status and update_state_from_api;
\* a failed fetch (None) skips the update.
PollStatusStep(status) ==
    /\ LoopsRunning /\ AsyncIdle
    /\ ppc = "status"
    /\ ppc' = "voters"
    /\ status_fetch' = IF status # None THEN "ok" ELSE "failed"
    /\ IF status # None
       THEN UpdateStateFromApi(Get(status))
       ELSE UNCHANGED <<last_window_id, last_winner, last_winner_votes,
                        current_tallies, time_remaining, emuVars, shotVars,
                        pollGhostVars>>
    /\ UNCHANGED <<program, fileVars, AUDIO_VOLUME_BOOST, start_outcome, voters_known, overlayVars, stop_trace, appVars, epc, rpc, audio_data, recent_voters,
                   running, procVars, videoVars, audioVars, frameLogVars,
                   audioLogVars, writerLogVars>>

PollStatus(status) == PollStatusStep(status) /\ UNCHANGED script_pos

\* The poll results of the end-to-end scenario, in the order they arrive.
Script ==
    << [tallies |-> TallyLists[2], timeRemaining |-> 3,
        prev |-> Some(PrevResult(5, Some("a"), 12))],
       [tallies |-> TallyLists[1], timeRemaining |-> 10,
        prev |-> Some(PrevResult(5, Some("a"), 12))],
       [tallies |-> TallyLists[1], timeRemaining |-> 3,
        prev |-> Some(PrevResult(6, None, 0))] >>

\* vote_poll_loop receiving the scenario's next poll result.
ScriptedPoll ==
    /\ script_pos < Len(Script)
    /\ PollStatusStep(Some(Script[script_pos + 1]))
    /\ script_pos' = script_pos + 1

VoterLists == { <<>>, << <<"agent", "a">> >> }

\* The outcome of the /voters request: None when it failed (any exception or
\* a status other than 200), else the list in the response.
VoterResponses == {None} \cup {Some(v) : v \in VoterLists}

\* fetch_voters, main.py:155-178: the list, [] when the request failed
FetchVoters(response) == IF response = None THEN <<>> ELSE Get(response)

\* vote_poll_loop, main.py:324: self.recent_voters = await self.fetch_voters()
PollVoters(response) ==
    /\ LoopsRunning /\ AsyncIdle
    /\ ppc = "voters"
    /\ ppc' = "status"
    /\ recent_voters' = FetchVoters(response)
    /\ voters_known' = IF response # None THEN Get(response) ELSE voters_known
    /\ status_fetch' = "none"
    /\ UNCHANGED <<program, fileVars, AUDIO_VOLUME_BOOST, start_outcome, overlayVars, stop_trace, appVars, epc, rpc, audio_data, last_window_id,
                   last_winner, last_winner_votes, current_tallies,
                   time_remaining, emuVars, shotVars, running, procVars,
                   videoVars, audioVars, frameLogVars, audioLogVars,
                   writerLogVars, pollLogVars>>

\* ----- run(), RTMPStreamer.start(), shutdown(), RTMPStreamer.stop()
\* run, main.py:370-376
RunBegin ==
    /\ program = "emulator"
    /\ mpc = "init"
    /\ app_running' = TRUE
    /\ mpc' = IF rtmp_streamer THEN "start" ELSE "loops"
    /\ UNCHANGED <<program, fileVars, AUDIO_VOLUME_BOOST, start_outcome, fetchVars, overlayVars, stop_trace, RTMP_URL, rtmp_streamer, output, loopVars,
                   voteVars, emuVars, shotVars, running, procVars, videoVars,
                   audioVars, frameLogVars, audioLogVars, writerLogVars,
                   pollLogVars>>

\* start, compositor.py:418-422: unlink stale pipes, mkfifo both
StartPipes ==
    /\ mpc = "start"
    /\ pipe_exists' = [p \in Pipes |-> TRUE]
    /\ mpc' = "launch"
    /\ UNCHANGED <<program, fileVars, AUDIO_VOLUME_BOOST, start_outcome, fetchVars, overlayVars, stop_trace, RTMP_URL, app_running, rtmp_streamer, output,
                   loopVars, voteVars, emuVars, shotVars, running,
                   ffmpeg_process, reader, launches, videoVars, audioVars,
                   frameLogVars, audioLogVars, writerLogVars, pollLogVars>>

StartOutcomes == {"ok", "FileNotFoundError", "Exception"}

\* A start that starts the writer threads and leaves the running flag unset.
StartLaunchFlagUnset(outcome) ==
    /\ mpc = "launch"
    /\ mpc' = "loops"
    /\ start_outcome' = outcome
    /\ IF outcome = "ok"
       THEN /\ ffmpeg_process' = "alive"
            /\ launches' = launches + 1
            /\ running' = running
            /\ video_thread' = "open"
            /\ audio_thread' = "open"
            /\ UNCHANGED <<pipe_exists, rtmp_streamer, output>>
       ELSE /\ CleanupPipes
            /\ rtmp_streamer' = FALSE
            /\ output' = TRUE
            /\ UNCHANGED <<ffmpeg_process, launches, running,
                           video_thread, audio_thread>>
    /\ UNCHANGED <<program, fileVars, AUDIO_VOLUME_BOOST, fetchVars, overlayVars, stop_trace, RTMP_URL, app_running, loopVars, voteVars,
                   emuVars, shotVars, reader, frame_queue, frame_bytes,
                   audio_buffer, chunk, frameLogVars, audioLogVars,
                   writerLogVars, pollLogVars>>

\* A start whose failure handlers leave the pipe files behind.
StartLaunchLeavesPipes(outcome) ==
    /\ mpc = "launch"
    /\ mpc' = "loops"
    /\ start_outcome' = outcome
    /\ IF outcome = "ok"
       THEN /\ ffmpeg_process' = "alive"
            /\ launches' = launches + 1
            /\ running' = TRUE
            /\ video_thread' = "open"
            /\ audio_thread' = "open"
            /\ UNCHANGED <<pipe_exists, rtmp_streamer, output>>
       ELSE /\ rtmp_streamer' = FALSE
            /\ output' = TRUE
            /\ UNCHANGED <<pipe_exists, ffmpeg_process, launches, running,
                           video_thread, audio_thread>>
    /\ UNCHANGED <<program, fileVars, AUDIO_VOLUME_BOOST, fetchVars, overlayVars, stop_trace, RTMP_URL, app_running, loopVars, voteVars,
                   emuVars, shotVars, reader, frame_queue, frame_bytes,
                   audio_buffer, chunk, frameLogVars, audioLogVars,
                   writerLogVars, pollLogVars>>

\* start, compositor.py:467-499 (Popen, running = True, both threads started)
\* and run, main.py:377-380 (a failed start falls back to the file preview)
StartLaunch(outcome) ==
    /\ mpc = "launch"
    /\ mpc' = "loops"
    /\ start_outcome' = outcome
    /\ IF outcome = "ok"
       THEN /\ ffmpeg_process' = "alive"
            /\ launches' = launches + 1
            /\ running' = TRUE
            /\ video_thread' = "open"
            /\ audio_thread' = "open"
            /\ UNCHANGED <<pipe_exists, rtmp_streamer, output>>
       ELSE /\ CleanupPipes
            /\ rtmp_streamer' = FALSE
            /\ output' = TRUE
            /\ UNCHANGED <<ffmpeg_process, launches, running, video_thread,
                           audio_thread>>
    /\ UNCHANGED <<program, fileVars, AUDIO_VOLUME_BOOST, fetchVars, overlayVars, stop_trace, RTMP_URL, app_running, loopVars, voteVars,
                   emuVars, shotVars, reader, frame_queue, frame_bytes,
                   audio_buffer, chunk, frameLogVars, audioLogVars,
                   writerLogVars, pollLogVars>>

\* The tasks are cancelled (signal handler, main.py:431-434) or a loop raised:
\* run's finally enters shutdown, main.py:396-401
ShutdownBegin ==
    /\ LoopsRunning /\ AsyncIdle
    /\ app_running' = FALSE
    /\ mpc' = "session_close"
    /\ UNCHANGED <<program, fileVars, AUDIO_VOLUME_BOOST, start_outcome, fetchVars, overlayVars, stop_trace, RTMP_URL, rtmp_streamer, output, loopVars,
                   voteVars, emuVars, shotVars, running, procVars, videoVars,
                   audioVars, frameLogVars, audioLogVars, writerLogVars,
                   pollLogVars>>

\* /status responses with a tally entry that lacks a required field.
MalformedStatuses ==
    { [tallies |-> << t >>, timeRemaining |-> 3,
       prev |-> Some(PrevResult(1, Some("a"), 12))] :
        t \in { [button |-> "a", count |-> 12],
                [button |-> "a", percentage |-> 100],
                [count |-> 12, percentage |-> 100] } }

\* main.py:217-225: t["button"], t["count"], t["percentage"] are read from
\* every tally entry
TalliesWellFormed(status) ==
    \A i \in 1..Len(status.tallies) :
        {"button", "count", "percentage"} \subseteq DOMAIN status.tallies[i]

\* vote_poll_loop with a response whose tallies are malformed: the subscript
\* in update_state_from_api raises KeyError before anything is assigned
\* (main.py:216-225); neither update_state_from_api nor vote_poll_loop
\* (main.py:317-326) catches it, gather re-raises it in run(), whose handler
\* takes only CancelledError, and run's finally enters shutdown
\* (main.py:385-401).
PollStatusMalformed(status) ==
    /\ LoopsRunning /\ AsyncIdle
    /\ ppc = "status"
    /\ ~TalliesWellFormed(status)
    /\ status_fetch' = "malformed"
    /\ app_running' = FALSE
    /\ mpc' = "session_close"
    /\ UNCHANGED <<program, fileVars, AUDIO_VOLUME_BOOST, start_outcome, voters_known, overlayVars, stop_trace, RTMP_URL, rtmp_streamer, output, loopVars,
                   voteVars, emuVars, shotVars, running, procVars, videoVars,
                   audioVars, frameLogVars, audioLogVars, writerLogVars,
                   pollLogVars>>

\* A shutdown that goes from the session close straight to Emulator.stop().
SessionCloseSkipsStreamer(ok) ==
    /\ mpc = "session_close"
    /\ mpc' = IF ~ok THEN "raised" ELSE "emu_stop"
    /\ UNCHANGED <<program, fileVars, AUDIO_VOLUME_BOOST, start_outcome, fetchVars, overlayVars, stop_trace, RTMP_URL, app_running, rtmp_streamer, output,
                   loopVars, voteVars, emuVars, shotVars, running, procVars,
                   videoVars, audioVars, frameLogVars, audioLogVars,
                   writerLogVars, pollLogVars>>

\* shutdown, main.py:404-409: await self.session.close(); an exception there
\* leaves shutdown before the streamer and the emulator are stopped
SessionClose(ok) ==
    /\ mpc = "session_close"
    /\ mpc' = IF ~ok THEN "raised"
              ELSE IF rtmp_streamer THEN "stop_clear" ELSE "emu_stop"
    /\ UNCHANGED <<program, fileVars, AUDIO_VOLUME_BOOST, start_outcome, fetchVars, overlayVars, stop_trace, RTMP_URL, app_running, rtmp_streamer, output,
                   loopVars, voteVars, emuVars, shotVars, running, procVars,
                   videoVars, audioVars, frameLogVars, audioLogVars,
                   writerLogVars, pollLogVars>>

\* stop, compositor.py:644  self.running = False
StopClear ==
    /\ mpc = "stop_clear"
    /\ running' = FALSE
    /\ mpc' = "join_video"
    /\ stop_trace' = Append(stop_trace, "clear")
    /\ UNCHANGED <<program, fileVars, AUDIO_VOLUME_BOOST, start_outcome, fetchVars, overlayVars, RTMP_URL, app_running, rtmp_streamer, output,
                   loopVars, voteVars, emuVars, shotVars, procVars, videoVars,
                   audioVars, frameLogVars, audioLogVars, writerLogVars,
                   pollLogVars>>

\* A join without a timeout: it returns only when the thread has ended.
StopJoinUnbounded ==
    /\ mpc \in {"join_video", "join_audio"}
    /\ IF mpc = "join_video" THEN video_thread \in {"unstarted", "done"}
       ELSE audio_thread \in {"unstarted", "done"}
    /\ mpc' = IF mpc = "join_video" THEN "join_audio" ELSE "terminate"
    /\ stop_trace' = Append(stop_trace, mpc)
    /\ UNCHANGED <<program, fileVars, AUDIO_VOLUME_BOOST, start_outcome, fetchVars, overlayVars, RTMP_URL, app_running, rtmp_streamer, output,
                   loopVars, voteVars, emuVars, shotVars, running, procVars,
                   videoVars, audioVars, frameLogVars, audioLogVars,
                   writerLogVars, pollLogVars>>

\* stop, compositor.py:647-650: join(timeout=2) returns when the thread has
\* ended, or at the timeout while it has not
StopJoin ==
    /\ mpc \in {"join_video", "join_audio"}
    /\ mpc' = IF mpc = "join_video" THEN "join_audio" ELSE "terminate"
    /\ stop_trace' = Append(stop_trace, mpc)
    /\ UNCHANGED <<program, fileVars, AUDIO_VOLUME_BOOST, start_outcome, fetchVars, overlayVars, RTMP_URL, app_running, rtmp_streamer, output,
                   loopVars, voteVars, emuVars, shotVars, running, procVars,
                   videoVars, audioVars, frameLogVars, audioLogVars,
                   writerLogVars, pollLogVars>>

\* stop, compositor.py:653-657: terminate(), wait(timeout=5).  The process
\* ends within the grace period (or had ended already), or the wait raises
\* TimeoutExpired and the handler is entered.
StopTerminate(inTime) ==
    /\ mpc = "terminate"
    /\ stop_trace' = Append(stop_trace, "terminate")
    /\ IF inTime \/ ffmpeg_process # "alive"
       THEN /\ mpc' = "cleanup"
            /\ ffmpeg_process' = IF ffmpeg_process = "None" THEN "None" ELSE "exited"
            /\ reader' = ClosedReaders
       ELSE /\ mpc' = "kill"
            /\ UNCHANGED <<ffmpeg_process, reader>>
    /\ UNCHANGED <<program, fileVars, AUDIO_VOLUME_BOOST, start_outcome, fetchVars, overlayVars, RTMP_URL, app_running, rtmp_streamer, output,
                   loopVars, voteVars, emuVars, shotVars, running,
                   pipe_exists, launches, videoVars, audioVars, frameLogVars,
                   audioLogVars, writerLogVars, pollLogVars>>

\* A handler that does not kill: the process outlives the grace period.
StopKillLeavesProcess ==
    /\ mpc = "kill"
    /\ mpc' = "cleanup"
    /\ stop_trace' = Append(stop_trace, "kill")
    /\ UNCHANGED <<program, fileVars, AUDIO_VOLUME_BOOST, start_outcome, fetchVars, overlayVars, RTMP_URL, app_running, rtmp_streamer, output,
                   loopVars, voteVars, emuVars, shotVars, running, procVars,
                   videoVars, audioVars, frameLogVars, audioLogVars,
                   writerLogVars, pollLogVars>>

\* stop, compositor.py:657-659: the handler force-kills the process
StopKill ==
    /\ mpc = "kill"
    /\ mpc' = "cleanup"
    /\ stop_trace' = Append(stop_trace, "kill")
    /\ ffmpeg_process' = "exited"
    /\ reader' = ClosedReaders
    /\ UNCHANGED <<program, fileVars, AUDIO_VOLUME_BOOST, start_outcome, fetchVars, overlayVars, RTMP_URL, app_running, rtmp_streamer, output,
                   loopVars, voteVars, emuVars, shotVars, running,
                   pipe_exists, launches, videoVars, audioVars, frameLogVars,
                   audioLogVars, writerLogVars, pollLogVars>>

\* A stop() that ends by starting the streamer again.
StopCleanupRestarts ==
    /\ mpc = "cleanup"
    /\ mpc' = "start"
    /\ CleanupPipes
    /\ stop_trace' = Append(stop_trace, "cleanup")
    /\ UNCHANGED <<program, fileVars, AUDIO_VOLUME_BOOST, start_outcome, fetchVars, overlayVars, RTMP_URL, app_running, rtmp_streamer, output,
                   loopVars, voteVars, emuVars, shotVars, running,
                   ffmpeg_process, reader, launches, videoVars, audioVars,
                   frameLogVars, audioLogVars, writerLogVars, pollLogVars>>

\* stop, compositor.py:662  self._cleanup_pipes()
StopCleanup ==
    /\ mpc = "cleanup"
    /\ mpc' = "emu_stop"
    /\ CleanupPipes
    /\ stop_trace' = Append(stop_trace, "cleanup")
    /\ UNCHANGED <<program, fileVars, AUDIO_VOLUME_BOOST, start_outcome, fetchVars, overlayVars, RTMP_URL, app_running, rtmp_streamer, output,
                   loopVars, voteVars, emuVars, shotVars, running,
                   ffmpeg_process, reader, launches, videoVars, audioVars,
                   frameLogVars, audioLogVars, writerLogVars, pollLogVars>>

\* shutdown, main.py:412 -> Emulator.stop, emulator.py:323-336
EmulatorStop ==
    /\ mpc = "emu_stop"
    /\ mpc' = "done"
    /\ ReleaseCurrentButton
    /\ UNCHANGED <<program, fileVars, AUDIO_VOLUME_BOOST, start_outcome, fetchVars, overlayVars, stop_trace, RTMP_URL, app_running, rtmp_streamer, output,
                   loopVars, voteVars, shotVars, running, procVars, videoVars,
                   audioVars, frameLogVars, audioLogVars, writerLogVars,
                   pollLogVars>>

\* ------------------------------------- the overlay compositor's main()
hostVars == <<stop_trace, appVars, loopVars, voteVars, emuVars, shotVars, running, procVars,
              videoVars, audioVars, frameLogVars, audioLogVars, writerLogVars,
              pollLogVars>>

\* main, compositor/compositor.py:598-635: exit without OUTPUT_RTMP_URL, else
\* mkfifo, install the handlers, api_client.start(), pipe_writer.start()
MainBegin ==
    /\ program = "compositor"
    /\ cpc = "init"
    /\ IF ~OUTPUT_RTMP_URL
       THEN /\ cpc' = "exit"
            /\ UNCHANGED <<overlay_pipe, overlay_running, overlay_thread>>
       ELSE /\ overlay_pipe' = TRUE
            /\ overlay_running' = TRUE
            /\ overlay_thread' = "open"
            /\ cpc' = "ffmpeg_start"
    /\ UNCHANGED <<program, fileVars, AUDIO_VOLUME_BOOST, start_outcome, fetchVars, OUTPUT_RTMP_URL, process, pipeline_launches,
                   pipe_ready, shutdown_event, overlay_reader, hostVars>>

PipelineStartOutcomes == {"ok", "no_input", "FileNotFoundError", "Exception"}

\* A pipeline start that is tried again after a failure.
PipelineStartRetries(outcome) ==
    /\ cpc = "ffmpeg_start"
    /\ start_outcome' = outcome
    /\ IF outcome = "ok"
       THEN /\ process' = "alive"
            /\ pipeline_launches' = pipeline_launches + 1
            /\ cpc' = "wait_pipe"
       ELSE /\ cpc' = "ffmpeg_start"
            /\ UNCHANGED <<process, pipeline_launches>>
    /\ UNCHANGED <<program, fileVars, AUDIO_VOLUME_BOOST, fetchVars, OUTPUT_RTMP_URL, overlay_running, overlay_thread,
                   pipe_ready, shutdown_event, overlay_pipe, overlay_reader, hostVars>>

\* FFmpegPipeline.start, compositor/compositor.py:468-549, and main's
\* handling of a failed start, 637-640 (pipe_writer.stop(), exit)
PipelineStart(outcome) ==
    /\ cpc = "ffmpeg_start"
    /\ start_outcome' = outcome
    /\ IF outcome = "ok"
       THEN /\ process' = "alive"
            /\ pipeline_launches' = pipeline_launches + 1
            /\ cpc' = "wait_pipe"
            /\ UNCHANGED overlay_running
       ELSE /\ overlay_running' = FALSE
            /\ cpc' = "exit"
            /\ UNCHANGED <<process, pipeline_launches>>
    /\ UNCHANGED <<program, fileVars, AUDIO_VOLUME_BOOST, fetchVars, OUTPUT_RTMP_URL, overlay_thread, pipe_ready,
                   shutdown_event, overlay_pipe, overlay_reader, hostVars>>

\* ffmpeg's read ends close when the process ends.
ClosedOverlayReader == IF overlay_reader = "open" THEN "closed" ELSE overlay_reader

\* A readiness wait without a timeout.
WaitForPipeReadyForever ==
    /\ cpc = "wait_pipe"
    /\ pipe_ready
    /\ cpc' = "monitor"
    /\ UNCHANGED <<process, overlay_reader>>
    /\ UNCHANGED <<program, fileVars, AUDIO_VOLUME_BOOST, start_outcome, fetchVars, OUTPUT_RTMP_URL, pipeline_launches, overlay_running,
                   overlay_thread, pipe_ready, shutdown_event, overlay_pipe,
                   hostVars>>

\* main, compositor/compositor.py:643-648: wait_for_pipe_ready(timeout=30);
\* on a timeout ffmpeg.stop() and exit
WaitForPipeReady ==
    /\ cpc = "wait_pipe"
    /\ IF pipe_ready
       THEN /\ cpc' = "monitor"
            /\ UNCHANGED <<process, overlay_reader>>
       ELSE /\ cpc' = "exit"
            /\ process' = "exited"
            /\ overlay_reader' = ClosedOverlayReader
    /\ UNCHANGED <<program, fileVars, AUDIO_VOLUME_BOOST, start_outcome, fetchVars, OUTPUT_RTMP_URL, pipeline_launches, overlay_running,
                   overlay_thread, pipe_ready, shutdown_event, overlay_pipe,
                   hostVars>>

\* signal_handler, compositor/compositor.py:618-620
SignalHandler ==
    /\ cpc \in {"ffmpeg_start", "wait_pipe", "monitor"}
    /\ ~shutdown_event
    /\ shutdown_event' = TRUE
    /\ UNCHANGED <<program, fileVars, AUDIO_VOLUME_BOOST, start_outcome, fetchVars, OUTPUT_RTMP_URL, cpc, process, pipeline_launches,
                   overlay_running, overlay_thread, pipe_ready, overlay_pipe,
                   overlay_reader, hostVars>>

\* An is_running that does not notice the process's exit.
IsRunningStale == process # "None"

\* FFmpegPipeline.is_running, compositor/compositor.py:562-566
IsRunning == process = "alive"

\* main, compositor/compositor.py:655-662: the monitor loop ends on the
\* shutdown event or when ffmpeg is no longer running
Monitor ==
    /\ cpc = "monitor"
    /\ shutdown_event \/ ~IsRunning
    /\ cpc' = "stop_writer"
    /\ UNCHANGED <<program, fileVars, AUDIO_VOLUME_BOOST, start_outcome, fetchVars, OUTPUT_RTMP_URL, process, pipeline_launches,
                   overlay_running, overlay_thread, pipe_ready, shutdown_event,
                   overlay_pipe, overlay_reader, hostVars>>

\* main, compositor/compositor.py:670-671: pipe_writer.stop(), api_client.stop()
StopWriter ==
    /\ cpc = "stop_writer"
    /\ overlay_running' = FALSE
    /\ cpc' = "stop_ffmpeg"
    /\ UNCHANGED <<program, fileVars, AUDIO_VOLUME_BOOST, start_outcome, fetchVars, OUTPUT_RTMP_URL, process, pipeline_launches,
                   overlay_thread, pipe_ready, shutdown_event, overlay_pipe,
                   overlay_reader, hostVars>>

\* FFmpegPipeline.stop, compositor/compositor.py:568-577
PipelineStop ==
    /\ cpc = "stop_ffmpeg"
    /\ process' = IF process = "None" THEN "None" ELSE "exited"
    /\ overlay_reader' = ClosedOverlayReader
    /\ cpc' = "unlink"
    /\ UNCHANGED <<program, fileVars, AUDIO_VOLUME_BOOST, start_outcome, fetchVars, OUTPUT_RTMP_URL, pipeline_launches, overlay_running,
                   overlay_thread, pipe_ready, shutdown_event, overlay_pipe,
                   hostVars>>

\* main, compositor/compositor.py:674-680: os.unlink(pipe_path)
MainUnlink ==
    /\ cpc = "unlink"
    /\ overlay_pipe' = FALSE
    /\ cpc' = "done"
    /\ UNCHANGED <<program, fileVars, AUDIO_VOLUME_BOOST, start_outcome, fetchVars, OUTPUT_RTMP_URL, process, pipeline_launches,
                   overlay_running, overlay_thread, pipe_ready, shutdown_event,
                   overlay_reader, hostVars>>

\* _write_loop, compositor/compositor.py:404-406: open() returns when ffmpeg
\* opens the overlay pipe for reading; _pipe_ready.set()
OverlayConnect ==
    /\ overlay_thread = "open"
    /\ process = "alive"
    /\ overlay_pipe
    /\ overlay_reader = "none"
    /\ overlay_reader' = "open"
    /\ overlay_thread' = "loop"
    /\ pipe_ready' = TRUE
    /\ UNCHANGED <<program, fileVars, AUDIO_VOLUME_BOOST, start_outcome, fetchVars, OUTPUT_RTMP_URL, cpc, process, pipeline_launches,
                   overlay_running, shutdown_event, overlay_pipe, hostVars>>

\* _write_loop, compositor/compositor.py:408-432: one iteration (render and
\* write a frame) or the end of the loop; finally: self._running = False
OverlayWrite(outcome) ==
    /\ overlay_thread = "loop"
    /\ IF ~overlay_running
       THEN /\ outcome = "ok"
            /\ overlay_thread' = "done"
            /\ overlay_running' = FALSE
       ELSE CASE outcome = "ok" ->
                   /\ overlay_reader = "open"
                   /\ UNCHANGED <<overlay_thread, overlay_running>>
              [] outcome = "BrokenPipeError" ->
                   /\ overlay_reader = "closed"
                   /\ overlay_thread' = "done"
                   /\ overlay_running' = FALSE
              [] outcome = "Exception" ->
                   /\ overlay_thread' = "done"
                   /\ overlay_running' = FALSE
    /\ UNCHANGED <<program, fileVars, AUDIO_VOLUME_BOOST, start_outcome, fetchVars, OUTPUT_RTMP_URL, cpc, process, pipeline_launches,
                   pipe_ready, shutdown_event, overlay_pipe, overlay_reader,
                   hostVars>>

\* The compositing ffmpeg exits on its own.
PipelineExit ==
    /\ process = "alive"
    /\ process' = "exited"
    /\ overlay_reader' = ClosedOverlayReader
    /\ UNCHANGED <<program, fileVars, AUDIO_VOLUME_BOOST, start_outcome, fetchVars, OUTPUT_RTMP_URL, cpc, pipeline_launches,
                   overlay_running, overlay_thread, pipe_ready, shutdown_event,
                   overlay_pipe, hostVars>>

\* ------------------------------------------------------- initial states
NoBlock == [n |-> 0, x |-> 0]

\* ----- Emulator.save_state and Emulator.save_screenshot, emulator.py:190-233
MaxSaves == 3

\* File names as their dot-separated parts. main.py:42-43, the defaults of
\* SCREENSHOT_PATH and SAVE_STATE_PATH.
SAVE_STATE_PATH == <<"pokemon", "save">>
SCREENSHOT_PATH == <<"screenshot", "png">>

SaveKinds == {"state", "screenshot"}

\* pathlib's with_suffix: the last suffix of the name is replaced (a name
\* without a suffix gets the new one appended).
WithSuffix(path, suffix) ==
    IF Len(path) > 1 THEN SubSeq(path, 1, Len(path) - 1) \o suffix
    ELSE path \o suffix

\* emulator.py:145-146: save_state_path, screenshot_path
FinalPath(kind) == IF kind = "state" THEN SAVE_STATE_PATH ELSE SCREENSHOT_PATH

\* A save that writes to the final path directly.
TempPathInPlace(kind) == FinalPath(kind)

\* emulator.py:199 with_suffix(".tmp"), emulator.py:224 with_suffix(".tmp.png")
TempPath(kind) ==
    IF kind = "state" THEN WithSuffix(SAVE_STATE_PATH, <<"tmp">>)
    ELSE WithSuffix(SCREENSHOT_PATH, <<"tmp", "png">>)

SavePaths == {FinalPath(k) : k \in SaveKinds} \cup {TempPath(k) : k \in SaveKinds}

\* What a file holds: the version written and whether it was written whole.
FileContents == [version : 1..(MaxSaves + 1), complete : BOOLEAN]

\* save_state, emulator.py:197-200 open(temp_path, "wb"); save_screenshot,
\* emulator.py:221-225 pyboy.screen.image and the open inside Image.save.
\* An exception here returns False (209-210, 231-233) with no file touched.
SaveOpen(kind, ok) ==
    /\ program = "emulator" /\ mpc = "init"
    /\ save_kind = None
    /\ n_saves < MaxSaves
    /\ n_saves' = n_saves + 1
    /\ final_at_call' = files[FinalPath(kind)]
    /\ IF ok
       THEN /\ files' = [files EXCEPT ![TempPath(kind)] =
                            Some([version |-> n_saves + 1, complete |-> FALSE])]
            /\ save_kind' = Some(kind)
            /\ save_pc' = "write"
            /\ save_ret' = None
       ELSE /\ save_ret' = Some(FALSE)
            /\ UNCHANGED <<files, save_kind, save_pc>>
    /\ UNCHANGED <<program, AUDIO_VOLUME_BOOST, start_outcome, fetchVars, overlayVars, hostVars>>

\* pyboy.save_state(f) and the close, emulator.py:200-201; Image.save,
\* emulator.py:225. A failure leaves the temporary file incomplete.
SaveWrite(ok) ==
    /\ save_kind # None /\ save_pc = "write"
    /\ IF ok
       THEN /\ files' = [files EXCEPT ![TempPath(Get(save_kind))] =
                            Some([version |-> n_saves, complete |-> TRUE])]
            /\ save_pc' = "replace"
            /\ UNCHANGED <<save_kind, save_ret>>
       ELSE /\ save_kind' = None
            /\ save_pc' = "idle"
            /\ save_ret' = Some(FALSE)
            /\ UNCHANGED files
    /\ UNCHANGED <<n_saves, final_at_call>>
    /\ UNCHANGED <<program, AUDIO_VOLUME_BOOST, start_outcome, fetchVars, overlayVars, hostVars>>

\* temp_path.replace(final), emulator.py:204 and 228: the rename moves the
\* temporary file onto the final path in one step; then return True
\* (206-207, 230). A failing rename changes nothing and returns False.
SaveReplace(ok) ==
    /\ save_kind # None /\ save_pc = "replace"
    /\ LET temp == TempPath(Get(save_kind))
           final == FinalPath(Get(save_kind))
       IN  IF ok
           THEN files' = [p \in SavePaths |->
                            IF p = final THEN files[temp]
                            ELSE IF p = temp THEN None
                            ELSE files[p]]
           ELSE UNCHANGED files
    /\ save_ret' = Some(ok)
    /\ save_kind' = None
    /\ save_pc' = "idle"
    /\ UNCHANGED <<n_saves, final_at_call>>
    /\ UNCHANGED <<program, AUDIO_VOLUME_BOOST, start_outcome, fetchVars, overlayVars, hostVars>>

\* The state of either program after its constructors: ClawPlaysPokemon,
\* Emulator and RTMPStreamer for the emulator host (shaped by RTMP_URL),
\* OverlayPipeWriter and FFmpegPipeline for the overlay compositor (shaped
\* by OUTPUT_RTMP_URL).
Init ==
    /\ program \in {"emulator", "compositor"}
    /\ RTMP_URL \in IF program = "emulator" THEN BOOLEAN ELSE {FALSE}
    /\ OUTPUT_RTMP_URL \in IF program = "compositor" THEN BOOLEAN ELSE {FALSE}
    /\ AUDIO_VOLUME_BOOST \in IF program = "emulator" THEN Gains ELSE {DefaultGain}
    /\ cpc = "init"
    /\ process = "None"
    /\ pipeline_launches = 0
    /\ overlay_running = FALSE
    /\ overlay_thread = "unstarted"
    /\ pipe_ready = FALSE
    /\ shutdown_event = FALSE
    /\ overlay_pipe = FALSE
    /\ overlay_reader = "none"
    /\ app_running = FALSE
    /\ rtmp_streamer = RTMP_URL
    /\ output = ~RTMP_URL
    /\ mpc = "init"
    /\ epc = "sleep" /\ rpc = "sleep" /\ ppc = "status"
    /\ audio_data = NoBlock
    /\ last_window_id = None
    /\ last_winner = None
    /\ last_winner_votes = 0
    /\ current_tallies = <<>>
    /\ time_remaining = 10
    /\ recent_voters = <<>>
    /\ post_move_screenshot_frames = 0
    /\ held_button = None
    /\ hold_frames_remaining = 0
    /\ pyboy_pressed = {}
    /\ running = FALSE
    /\ ffmpeg_process = "None"
    /\ pipe_exists = [p \in Pipes |-> FALSE]
    /\ reader = [p \in Pipes |-> "none"]
    /\ video_thread = "unstarted"
    /\ audio_thread = "unstarted"
    /\ frame_queue = <<>>
    /\ frame_bytes = 0
    /\ audio_buffer = <<>>
    /\ chunk = <<>>
    /\ n_frames = 0
    /\ send_frame_ret = None
    /\ n_send_audio = 0
    /\ appended = <<>>
    /\ send_audio_ret = None
    /\ overflowed = FALSE
    /\ launches = 0
    /\ clears = [p \in Pipes |-> 0]
    /\ opens = [p \in Pipes |-> 0]
    /\ late_writes = [p \in Pipes |-> 0]
    /\ writer_cleared = FALSE
    /\ stop_trace = <<>>
    /\ files = [p \in SavePaths |-> None]
    /\ save_kind = None
    /\ save_pc = "idle"
    /\ save_ret = None
    /\ n_saves = 0
    /\ final_at_call = None
    /\ status_fetch = "none"
    /\ voters_known = <<>>
    /\ start_outcome = "none"
    /\ writer_error = [p \in Pipes |-> "none"]
    /\ observed = None
    /\ polled_winner = FALSE
    /\ press_count = [w \in WindowIds |-> 0]
    /\ last_press = None
    /\ press_ret = None
    /\ press_over = "none"
    /\ run_len = 0
    /\ run_presses = 0
    /\ ticks_since_arm = POST_MOVE_SCREENSHOT_FRAMES + 1
    /\ captures = 0
    /\ script_pos = 0

\* ------------------------------------------------------- specifications
Environment ==
    \/ \E p \in Pipes : ReaderConnect(p)
    \/ \E p \in Pipes : ReaderClose(p)
    \/ FfmpegExit

VideoWriter ==
    \/ VideoCheck
    \/ VideoGet
    \/ \E o \in WriteOutcomes : VideoWrite(o)

AudioWriter ==
    \/ AudioCheck
    \/ AudioSleep
    \/ AudioPop
    \/ \E o \in WriteOutcomes : AudioWrite(o)

Lifecycle ==
    \/ RunBegin
    \/ StartPipes
    \/ \E o \in StartOutcomes : StartLaunch(o)
    \/ ShutdownBegin
    \/ \E ok \in BOOLEAN : SessionClose(ok)
    \/ StopClear
    \/ StopJoin
    \/ \E inTime \in BOOLEAN : StopTerminate(inTime)
    \/ StopKill
    \/ StopCleanup
    \/ EmulatorStop

FrameProducer ==
    \/ StreamLoopUpTo(MaxFrames)
    \/ SendFrameCheck
    \/ \E ok \in BOOLEAN : SendFrameRender(ok)
    \/ SendFramePut

AudioProducer ==
    \/ \E b \in AudioBlocks : EmulatorLoop(b)
    \/ SendAudioCheck
    \/ SendAudioAppend(AUDIO_VOLUME_BOOST)

VotePoller ==
    \/ \E s \in {None} \cup {Some(x) : x \in Statuses} : PollStatus(s)
    \/ \E v \in VoterResponses : PollVoters(v)

OverlayCompositor ==
    \/ MainBegin
    \/ \E o \in PipelineStartOutcomes : PipelineStart(o)
    \/ WaitForPipeReady
    \/ SignalHandler
    \/ Monitor
    \/ StopWriter
    \/ PipelineStop
    \/ MainUnlink
    \/ OverlayConnect
    \/ \E o \in WriteOutcomes : OverlayWrite(o)
    \/ PipelineExit

\* Either program.
Next ==
    \/ OverlayCompositor
    \/ Lifecycle
    \/ Environment
    \/ VideoWriter
    \/ AudioWriter
    \/ FrameProducer
    \/ AudioProducer
    \/ VotePoller

Spec == Init /\ [][Next]_vars

\* The emulator host with streaming configured / not configured, with the
\* default gain.
InitStream == Init /\ program = "emulator" /\ RTMP_URL /\ AUDIO_VOLUME_BOOST = DefaultGain
InitVote == Init /\ program = "emulator" /\ ~RTMP_URL /\ AUDIO_VOLUME_BOOST = DefaultGain

\* The streamer's life from start() to stop(), with the stream loop feeding
\* a few frames; the emulator loop does not run, so the audio writer pops
\* silence.
NextStream ==
    \/ Lifecycle
    \/ Environment
    \/ VideoWriter
    \/ AudioWriter
    \/ StreamLoopUpTo(MaxLifecycleFrames)
    \/ SendFrameCheck
    \/ \E ok \in BOOLEAN : SendFrameRender(ok)
    \/ SendFramePut

SpecStream == InitStream /\ [][NextStream]_vars

\* The same, with the scheduling the threads get from the operating system:
\* a writer thread that can take a step eventually takes one.  Nothing
\* obliges the encoder to open a pipe, so a thread waiting in open() has no
\* step of its own to take.
SpecStreamFair ==
    /\ SpecStream
    /\ WF_vars(VideoWriter)
    /\ WF_vars(AudioWriter)

\* stop() runs on the main thread and none of its steps waits without bound
\* (join(timeout=2), wait(timeout=5), kill, unlink): having begun, it takes
\* its next step.  The encoder and the writer threads are under no obligation.
StopSteps ==
    \/ StopClear
    \/ StopJoin
    \/ \E inTime \in BOOLEAN : StopTerminate(inTime)
    \/ StopKill
    \/ StopCleanup

SpecStopFair == SpecStream /\ WF_vars(StopSteps)

\* The two encoder supervisors: the emulator host's streamer and the
\* overlay compositor's pipeline, each from construction to the end.
InitSupervisor == Init /\ (program = "emulator" => RTMP_URL) /\ AUDIO_VOLUME_BOOST = DefaultGain

NextSupervisor == NextStream \/ OverlayCompositor

SpecSupervisor == InitSupervisor /\ [][NextSupervisor]_vars

\* Both media at once: both writer threads, the stream loop and the emulator
\* loop, with a running encoder whose read ends open and close on their own.
MediaBlock == [n |-> 1600, x |-> 16000]

NextMedia ==
    \/ RunBegin
    \/ StartPipes
    \/ StartLaunch("ok")
    \/ Environment
    \/ VideoWriter
    \/ AudioWriter
    \/ StreamLoopUpTo(MaxMediaFrames)
    \/ SendFrameCheck
    \/ SendFrameRender(TRUE)
    \/ SendFramePut
    \/ EmulatorLoop(MediaBlock)
    \/ SendAudioCheck
    \/ SendAudioAppend(AUDIO_VOLUME_BOOST)

SpecMedia == InitStream /\ [][NextMedia]_vars

\* The whole session of the emulator host with streaming configured: start,
\* both loops producing, both writers, and shutdown.
NextSession ==
    \/ NextStream
    \/ EmulatorLoop(MediaBlock)
    \/ SendAudioCheck
    \/ SendAudioAppend(AUDIO_VOLUME_BOOST)

SpecSession == InitStream /\ [][NextSession]_vars

\* The Emulator object on its own: press_button and tick called in any
\* order with any of these identifiers.
ButtonInputs == VALID_BUTTONS \cup {"A", "B", "x", ""}

\* Emulator.press_button(button), emulator.py:244-269
PressButtonCall(button) ==
    /\ program = "emulator" /\ mpc = "init"
    /\ PressButton(button)
    /\ last_press' = Some(button)
    /\ press_ret' = Some(PressButtonValid(button))
    /\ press_over' = HeldAtCall(button)
    /\ UNCHANGED <<program, fileVars, AUDIO_VOLUME_BOOST, start_outcome, fetchVars, overlayVars, stop_trace, appVars, loopVars, voteVars, shotVars,
                   running, procVars, videoVars, audioVars, frameLogVars,
                   audioLogVars, writerLogVars, observed, polled_winner,
                   press_count, run_len, run_presses, script_pos>>

\* Emulator.tick(), emulator.py:278-299
TickCall ==
    /\ program = "emulator" /\ mpc = "init"
    /\ EmulatorTick
    /\ UNCHANGED <<program, fileVars, AUDIO_VOLUME_BOOST, start_outcome, fetchVars, overlayVars, stop_trace, appVars, loopVars, voteVars, shotVars,
                   running, procVars, videoVars, audioVars, frameLogVars,
                   audioLogVars, writerLogVars, pollLogVars>>

NextEmulator ==
    \/ \E b \in ButtonInputs : PressButtonCall(b)
    \/ TickCall

SpecEmulator == InitVote /\ [][NextEmulator]_vars

\* main's readiness wait is bounded by its timeout: main, once waiting, takes
\* the step that ends the wait.  Nothing obliges ffmpeg to open the pipe.
SpecSupervisorFair == SpecSupervisor /\ WF_vars(WaitForPipeReady)

\* Both programs with the scheduling their writer threads get: a writer
\* thread that can take a step eventually takes one (a write is taken to
\* return, with success or with an error).
OverlayWriter == \E o \in WriteOutcomes : OverlayWrite(o)

SpecWritersFair ==
    /\ SpecSupervisor
    /\ WF_vars(VideoWriter)
    /\ WF_vars(AudioWriter)
    /\ WF_vars(OverlayWriter)

\* main's monitor loop and cleanup run on the main thread with bounded waits
\* (shutdown_event.wait(1.0), join(timeout=2), wait(timeout=5), unlink): a
\* step of it that can be taken is eventually taken.
MainSteps == Monitor \/ StopWriter \/ PipelineStop \/ MainUnlink

SpecMonitorFair == SpecSupervisor /\ WF_vars(MainSteps)

\* The gain: blocks of one stereo frame with sample values at and around the
\* limits, appended under each configured gain.
BoostBlocks ==
    { [n |-> 2, x |-> x] : x \in {INT16_MIN, -12000, -3, 0, 1, 16000, INT16_MAX} }

InitBoost == Init /\ program = "emulator" /\ RTMP_URL

NextBoost ==
    \/ RunBegin
    \/ StartPipes
    \/ StartLaunch("ok")
    \/ \E b \in BoostBlocks : EmulatorLoop(b)
    \/ SendAudioCheck
    \/ SendAudioAppend(AUDIO_VOLUME_BOOST)

SpecBoost == InitBoost /\ [][NextBoost]_vars

\* Either program started with or without its stream destination.
InitStartup == Init /\ AUDIO_VOLUME_BOOST = DefaultGain

SpecStartup == InitStartup /\ [][NextSupervisor]_vars

\* The video path: the stream loop enqueues, the video writer dequeues; the
\* audio writer stays in its pipe open.
NextVideo ==
    \/ RunBegin
    \/ StartPipes
    \/ StartLaunch("ok")
    \/ ReaderConnect("video")
    \/ ReaderClose("video")
    \/ FfmpegExit
    \/ VideoWriter
    \/ FrameProducer

SpecVideo == InitStream /\ [][NextVideo]_vars

\* The audio path: the emulator loop appends, the audio writer pops; the
\* video writer stays in its pipe open.
NextAudio ==
    \/ RunBegin
    \/ StartPipes
    \/ StartLaunch("ok")
    \/ ReaderConnect("audio")
    \/ ReaderClose("audio")
    \/ FfmpegExit
    \/ AudioWriter
    \/ AudioProducer

SpecAudio == InitStream /\ [][NextAudio]_vars

\* The vote state machine and the emulator's button hold, without a streamer.
NextVote ==
    \/ RunBegin
    \/ \E s \in {None} \cup {Some(x) : x \in Statuses} : PollStatus(s)
    \/ PollVoters(Some(<<>>))
    \/ EmulatorLoop(NoBlock)
    \/ ShutdownBegin
    \/ \E ok \in BOOLEAN : SessionClose(ok)
    \/ EmulatorStop

SpecVote == InitVote /\ [][NextVote]_vars

\* The end-to-end vote scenario: the three scripted poll results arrive in
\* order, the emulator loop ticks at any time in between and after.
NextScenario ==
    \/ RunBegin
    \/ ScriptedPoll
    \/ PollVoters(Some(<<>>))
    \/ EmulatorLoop(NoBlock)

SpecScenario == InitVote /\ [][NextScenario]_vars

\* The save calls of the emulator, each of its steps failing or succeeding.
NextFiles ==
    \/ \E kind \in SaveKinds, ok \in BOOLEAN : SaveOpen(kind, ok)
    \/ \E ok \in BOOLEAN : SaveWrite(ok)
    \/ \E ok \in BOOLEAN : SaveReplace(ok)

SpecFiles == InitVote /\ [][NextFiles]_vars

\* The voters fetch: status polls that fail or deliver the first scripted
\* result, voters requests that fail or deliver a list, and emulator ticks.
NextVoters ==
    \/ RunBegin
    \/ \E s \in {None, Some(Script[1])} : PollStatus(s)
    \/ \E v \in VoterResponses : PollVoters(v)
    \/ EmulatorLoop(NoBlock)

SpecVoters == InitVote /\ [][NextVoters]_vars

\* The poll loop with well-formed, failed and malformed responses, the
\* emulator loop, and the shutdown a raised exception leads to.
NextMalformed ==
    \/ RunBegin
    \/ \E s \in {None, Some(Script[1])} : PollStatus(s)
    \/ \E s \in MalformedStatuses : PollStatusMalformed(s)
    \/ PollVoters(Some(<<>>))
    \/ EmulatorLoop(NoBlock)
    \/ \E ok \in BOOLEAN : SessionClose(ok)
    \/ EmulatorStop

SpecMalformed == InitVote /\ [][NextMalformed]_vars

\* ------------------------------------------------------------ properties
\* C1: the audio buffer never holds more than max_samples (48000) samples,
\* whatever the interleaving of appends and pops; it always holds the newest
\* samples appended, in their order, and right after an append that exceeded
\* the bound it holds exactly the last max_samples samples appended.
C1_AudioBufferBound ==
    /\ max_samples = 48000
    /\ SampleLen(audio_buffer) <= max_samples
    /\ Norm(audio_buffer) = Norm(SliceLast(appended, SampleLen(audio_buffer)))
    /\ overflowed =>
         /\ SampleLen(audio_buffer) = max_samples
         /\ Norm(audio_buffer) = Norm(SliceLast(appended, max_samples))

\* An append has just overflowed after the writer had popped part of the
\* buffer, and what is retained spans two appended blocks.
C1_Witness ==
    /\ overflowed
    /\ send_audio_ret = Some(TRUE)
    /\ Len(audio_buffer) >= 2
    /\ SampleLen(appended) > max_samples + samples_per_chunk

IsZeros(b) == \A i \in 1..Len(b) : b[i].id = 0 /\ b[i].v = 0

\* The step in which the audio writer takes its chunk.
C2_PopStep ==
    (audio_thread = "timer" /\ audio_thread' = "write") =>
        LET have == SampleLen(audio_buffer)
        IN  /\ SampleLen(chunk') = samples_per_chunk
            /\ have >= samples_per_chunk =>
                 Norm(Concatenate(chunk', audio_buffer')) = Norm(audio_buffer)
            /\ have < samples_per_chunk =>
                 /\ Norm(SliceTo(chunk', have)) = Norm(audio_buffer)
                 /\ IsZeros(SliceFrom(chunk', have))
                 /\ audio_buffer' = <<>>
            /\ have = 0 => IsZeros(chunk')

\* C2: every chunk the audio writer pops and writes has exactly
\* samples_per_chunk (3200) samples; with fewer buffered it is the buffered
\* samples followed only by zeros, and all zeros when the buffer is empty.
C2_ChunkSize ==
    /\ [](samples_per_chunk = 3200)
    /\ [](audio_thread = "write" => SampleLen(chunk) = samples_per_chunk)
    /\ [][C2_PopStep]_vars

\* The writer holds a chunk made of 1600 buffered samples and 1600 zeros.
C2_Witness ==
    /\ audio_thread = "write"
    /\ Len(chunk) = 2
    /\ chunk[1].id # 0 /\ chunk[1].n < samples_per_chunk
    /\ chunk[2] = Run(0, samples_per_chunk - chunk[1].n, 0)

\* A step in which a send_frame call returns.
SendFrameReturns == rpc # "sleep" /\ rpc' = "sleep"

\* What the claim asks of a returning send_frame on a full / non-full queue.
EnqueueContract ==
    IF Len(frame_queue) >= FRAME_QUEUE_MAXSIZE
    THEN send_frame_ret' = Some(FALSE) /\ frame_queue' = frame_queue
    ELSE send_frame_ret' = Some(TRUE) /\ frame_queue' = Append(frame_queue, n_frames')

\* C3 as stated: every returning send_frame call, in every reachable state,
\* follows the full / non-full contract.
C3_Original == [][SendFrameReturns => EnqueueContract]_vars

\* C3, amended: a send_frame call that reaches put_nowait (the running flag
\* was set at its test and the frame rendered) returns false and leaves the
\* queue unchanged when the queue is full, and returns true and appends
\* exactly its frame when it is not; a call that found the flag cleared or
\* whose render raised returns false and leaves the queue unchanged.
C3_Enqueue ==
    [][SendFrameReturns =>
         IF rpc = "put" THEN EnqueueContract
         ELSE send_frame_ret' = Some(FALSE) /\ frame_queue' = frame_queue]_vars

\* A frame has just been refused while the writer is busy writing another.
C3_Witness ==
    /\ rpc = "sleep" /\ send_frame_ret = Some(FALSE)
    /\ Len(frame_queue) = FRAME_QUEUE_MAXSIZE
    /\ video_thread = "write"
    /\ running

\* C4: under every interleaving of enqueues and dequeues, the video writer
\* blocked in its pipe open included, the frame queue holds at most
\* FRAME_QUEUE_MAXSIZE (5) frames, and a put on a full queue does not block:
\* its step is enabled, and it discards the frame and lets the loop go on.
C4_QueueBound ==
    /\ [](FRAME_QUEUE_MAXSIZE = 5)
    /\ [](Len(frame_queue) <= FRAME_QUEUE_MAXSIZE)
    /\ [](rpc = "put" => ENABLED SendFramePut)
    /\ [][(rpc = "put" /\ Len(frame_queue) = FRAME_QUEUE_MAXSIZE
             /\ frame_queue' = frame_queue /\ rpc' # rpc) =>
            (rpc' = "sleep" /\ send_frame_ret' = Some(FALSE))]_vars
    /\ [][rpc = "put" /\ Len(frame_queue) = FRAME_QUEUE_MAXSIZE =>
            frame_queue' = frame_queue \/ Len(frame_queue') < Len(frame_queue)]_vars

\* The queue is full, a frame was refused, and the video writer has not left
\* its pipe open.
C4_Witness ==
    /\ video_thread = "open"
    /\ Len(frame_queue) = FRAME_QUEUE_MAXSIZE
    /\ rpc = "sleep" /\ send_frame_ret = Some(FALSE)
    /\ n_frames > FRAME_QUEUE_MAXSIZE

\* C5: while consecutive poll results name the same window, press_button
\* has been called for it exactly once if the result (as first observed) has
\* a winner and not at all otherwise: once on the first of those polls,
\* never on a later one.
C5_ConsecutiveIdempotent ==
    /\ observed = last_window_id
    /\ observed # None =>
         /\ run_len >= 1
         /\ run_presses = IF polled_winner THEN 1 ELSE 0

\* The same window, with a valid winner, has been observed twice in a row.
C5_Witness ==
    /\ run_len = 2
    /\ polled_winner
    /\ run_presses = 1
    /\ held_button # None

\* C6 as stated: no window identifier ever has more than one press_button
\* call, even when it reappears after other identifiers.
C6_AtMostOnePerWindow == \A w \in WindowIds : press_count[w] <= 1

\* How far the scenario's countdown has run.
ScenarioCountdown ==
    IF ticks_since_arm >= POST_MOVE_SCREENSHOT_FRAMES THEN 0
    ELSE POST_MOVE_SCREENSHOT_FRAMES - ticks_since_arm

\* C7: in the scenario, poll 1 (window 5, "a", 12 votes) makes exactly one
\* press_button("a"); poll 2 (window 5 again) and poll 3 (window 6, no
\* winner) make none; the countdown armed by window 5 runs undisturbed from
\* 20 to zero, one per tick, and fires exactly one deferred capture.
C7_Scenario ==
    /\ POST_MOVE_SCREENSHOT_FRAMES = 20
    /\ \A w \in WindowIds \ {5} : press_count[w] = 0
    /\ script_pos = 0 =>
         /\ press_count[5] = 0 /\ last_press = None
         /\ post_move_screenshot_frames = 0 /\ captures = 0
    /\ script_pos >= 1 =>
         /\ press_count[5] = 1 /\ last_press = Some("a")
         /\ last_winner = Some("a") /\ last_winner_votes = 12
         /\ post_move_screenshot_frames = ScenarioCountdown
         /\ captures = IF ticks_since_arm >= POST_MOVE_SCREENSHOT_FRAMES
                       THEN 1 ELSE 0
    /\ script_pos = 3 => last_window_id = Some(6)

\* All three polls have arrived, the third while the countdown was still
\* running, and the countdown has just reached zero and fired its capture.
C7_Witness ==
    /\ script_pos = 3
    /\ ticks_since_arm = POST_MOVE_SCREENSHOT_FRAMES
    /\ post_move_screenshot_frames = 0
    /\ captures = 1
    /\ press_count[5] = 1

\* The video writer has caught BrokenPipeError and cleared the flag.
VideoPipeBroken == writer_error["video"] = "BrokenPipeError"

\* C8 as stated: after a broken-pipe write in the video writer the flag is
\* cleared by it exactly once and stays cleared, the audio writer makes no
\* more than the write of its current iteration, and both writer threads
\* terminate.
C8_BrokenPipeShutdown ==
    /\ [](VideoPipeBroken => clears["video"] = 1 /\ ~running)
    /\ [](VideoPipeBroken => late_writes["audio"] <= 1)
    /\ VideoPipeBroken ~> (video_thread = "done" /\ audio_thread = "done")

\* C9 as stated: once a writer has cleared the flag it is never set again,
\* no pipe is opened a second time, no further write completes on either
\* pipe, and start() is not called again.
C9_Original ==
    /\ [](writer_cleared => ~running)
    /\ [](\A p \in Pipes : opens[p] <= 1)
    /\ [](\A p \in Pipes : late_writes[p] = 0)
    /\ [](launches <= 1)
    /\ [][writer_cleared => launches' = launches /\ mpc' \notin {"start", "launch"}]_vars

\* C9, amended: once a writer has cleared the flag it is never set again, no
\* pipe is opened a second time, each writer completes at most one further
\* write (the one of the iteration it was in), and start() is not called
\* again.
C9_Terminal ==
    /\ [](writer_cleared => ~running)
    /\ [](\A p \in Pipes : opens[p] <= 1)
    /\ [](\A p \in Pipes : late_writes[p] <= 1)
    /\ [](launches <= 1)
    /\ [][writer_cleared => launches' = launches /\ mpc' \notin {"start", "launch"}]_vars

\* The video writer cleared the flag, the audio writer still completed the
\* write it was in, and both threads have ended.
C9_Witness ==
    /\ writer_cleared
    /\ clears["video"] = 1
    /\ late_writes["audio"] = 1
    /\ video_thread = "done" /\ audio_thread = "done"

\* The streamer's place in the lifecycle: 0 NOT_STARTED, 1 STARTING (inside
\* start(), pipes made), 2 RUNNING (the flag is set), 3 STOPPING (the flag
\* was cleared, stop() has not finished), 4 STOPPED (start() failed or
\* stop() finished).
StreamerPhase ==
    IF mpc \in {"init", "start"} THEN 0
    ELSE IF mpc = "launch" THEN 1
    ELSE IF running THEN 2
    ELSE IF launches = 0 \/ mpc \in {"emu_stop", "done"} THEN 4
    ELSE 3

\* The pipeline's place in the lifecycle: 1 STARTING while main waits for
\* the pipe, 2 RUNNING while main monitors a live process, 4 STOPPED when
\* main has left.
PipelinePhase ==
    IF cpc \in {"init", "ffmpeg_start"} THEN 0
    ELSE IF cpc \in {"exit", "done"} THEN 4
    ELSE IF process = "alive" /\ cpc = "wait_pipe" THEN 1
    ELSE IF process = "alive" /\ cpc = "monitor" THEN 2
    ELSE 3

Phase == IF program = "emulator" THEN StreamerPhase ELSE PipelinePhase

ProcessEnded == ffmpeg_process = "exited" \/ process = "exited"

\* C10: the supervisor's phase never moves backwards; a process is launched
\* at most once; and once the supervisor is stopping or stopped, or the
\* process has exited, nothing launches a process, revives the exited one,
\* or brings the supervisor to RUNNING from another phase.
C10_Lifecycle ==
    /\ [](launches <= 1 /\ pipeline_launches <= 1)
    /\ [][Phase' >= Phase]_vars
    /\ [][(Phase >= 3 \/ ProcessEnded) =>
            /\ launches' = launches
            /\ pipeline_launches' = pipeline_launches
            /\ ffmpeg_process = "exited" => ffmpeg_process' = "exited"
            /\ process = "exited" => process' = "exited"
            /\ Phase' = 2 => Phase = 2]_vars

\* The streamer ran, a writer ended the session, and stop() has finished.
C10_Witness ==
    /\ program = "emulator"
    /\ Phase = 4
    /\ launches = 1
    /\ writer_cleared
    /\ ffmpeg_process = "exited"
    /\ mpc = "done"


\* ---------------------------------------------------------------------------
StopOrderGraceful == <<"clear", "join_video", "join_audio", "terminate", "cleanup">>

StopOrderKilled == <<"clear", "join_video", "join_audio", "terminate", "kill", "cleanup">>

IsPrefix(s, t) == Len(s) <= Len(t) /\ SubSeq(t, 1, Len(s)) = s

StopReturned == Len(stop_trace) > 0 /\ mpc \in {"emu_stop", "done"}

\* C11: RTMPStreamer.stop() performs its steps in one order: the running
\* flag is cleared, the video and the audio thread are joined, the process
\* is terminated, killed when it outlived the grace period, and then the
\* pipes are removed.  From its first step on the flag is false, no pipe is
\* removed before the cleanup step, and when stop() has returned the whole
\* sequence was performed, the process has ended and neither pipe exists.
C11_StopOrder ==
    /\ IsPrefix(stop_trace, StopOrderGraceful) \/ IsPrefix(stop_trace, StopOrderKilled)
    /\ Len(stop_trace) > 0 => ~running
    /\ (Len(stop_trace) > 0 /\ mpc # "emu_stop" /\ mpc # "done")
          => \A p \in Pipes : pipe_exists[p]
    /\ StopReturned =>
          /\ stop_trace \in {StopOrderGraceful, StopOrderKilled}
          /\ ffmpeg_process = "exited"
          /\ \A p \in Pipes : ~pipe_exists[p]

C11_Witness ==
    /\ StopReturned
    /\ stop_trace = StopOrderKilled
    /\ ffmpeg_process = "exited"
    /\ \A p \in Pipes : ~pipe_exists[p]

\* ---------------------------------------------------------------------------
VideoBlocked == video_thread \in {"open", "write"}

AudioBlocked == audio_thread \in {"open", "write"}

\* every step of the video writer is possible wherever the thread stands
VideoCanStep ==
    /\ (video_thread = "open" /\ ffmpeg_process = "alive" /\ reader["video"] = "none")
          => ENABLED ReaderConnect("video")
    /\ video_thread = "loop" => ENABLED VideoCheck
    /\ video_thread = "get" => ENABLED VideoGet
    /\ (video_thread = "write" /\ reader["video"] = "open") => ENABLED VideoWrite("ok")

AudioCanStep ==
    /\ (audio_thread = "open" /\ ffmpeg_process = "alive" /\ reader["audio"] = "none")
          => ENABLED ReaderConnect("audio")
    /\ audio_thread = "loop" => ENABLED AudioCheck
    /\ audio_thread = "timer" => ENABLED AudioPop
    /\ (audio_thread = "write" /\ reader["audio"] = "open") => ENABLED AudioWrite("ok")

ProducersCanStep ==
    /\ rpc = "send_frame" => ENABLED SendFrameCheck
    /\ rpc = "render" => ENABLED SendFrameRender(TRUE)
    /\ rpc = "put" => ENABLED SendFramePut
    /\ epc = "send_audio" => ENABLED SendAudioCheck
    /\ epc = "append" => ENABLED SendAudioAppend(AUDIO_VOLUME_BOOST)

\* C12: while one writer thread is blocked in its pipe open or in a pipe
\* write, every step of the other writer thread (open with the encoder,
\* loop test, taking a frame or a chunk, writing to its open pipe) remains
\* possible; and every step of send_frame and send_audio is possible in
\* every state, whatever the writers are doing: in particular the append
\* under the audio lock is possible while the audio writer is in its write.
C12_MediaIndependence ==
    /\ VideoBlocked => AudioCanStep
    /\ AudioBlocked => VideoCanStep
    /\ ProducersCanStep

C12_Witness ==
    /\ video_thread = "open" /\ reader["video"] = "none"
    /\ audio_thread = "write" /\ reader["audio"] = "open"
    /\ epc = "append"
    /\ SampleLen(audio_buffer) > 0

\* ---------------------------------------------------------------------------
\* a step of send_frame that enqueues, or of send_audio that appends
ProducerStores ==
    \/ Len(frame_queue') > Len(frame_queue)
    \/ appended' # appended

RECURSIVE At(_, _)
At(b, i) ==
    IF i <= Head(b).n
    THEN [pos |-> IF Head(b).id = 0 THEN 0 ELSE Head(b).id + (i - 1), v |-> Head(b).v]
    ELSE At(Tail(b), i - Head(b).n)

\* the first and last index of every run of b, shifted by k
RECURSIVE RunEnds(_, _)
RunEnds(b, k) ==
    IF b = <<>> THEN {}
    ELSE {k + 1, k + Head(b).n} \cup RunEnds(Tail(b), k + Head(b).n)

\* indices at which two run sequences are compared: every index where a run
\* of the old buffer, of the chunk or of the new buffer begins or ends
Probes(old, n, new, out) ==
    RunEnds(old, 0) \cup RunEnds(out, 0) \cup RunEnds(new, n) \cup {n, n + 1}

C14_PopStep ==
    (audio_thread = "timer" /\ audio_thread' = "write") =>
        LET n == samples_per_chunk
            have == SampleLen(audio_buffer)
            left == SampleLen(audio_buffer')
            at == Probes(audio_buffer, n, audio_buffer', chunk')
        IN  /\ have >= n =>
                 /\ \A i \in at \cap (1..n) : At(chunk', i) = At(audio_buffer, i)
                 /\ left = have - n
                 /\ \A i \in at \cap ((n + 1)..have) :
                        At(audio_buffer', i - n) = At(audio_buffer, i)
            /\ (have >= 1 /\ have < n) =>
                 /\ \A i \in at \cap (1..have) : At(chunk', i) = At(audio_buffer, i)
                 /\ audio_buffer' = <<>>
            /\ have = 0 =>
                 /\ \A i \in at \cap (1..n) : At(chunk', i) = [pos |-> 0, v |-> 0]
                 /\ audio_buffer' = <<>>

\* C14: the pop of the audio writer, by sample position: with at least
\* samples_per_chunk samples buffered the chunk is the oldest
\* samples_per_chunk samples in order and the buffer keeps the others,
\* unchanged and in order; with fewer (but some) the chunk begins with the
\* buffered samples and the buffer becomes empty; with none the chunk is
\* silence and the buffer stays empty.
C14_PopEffect == [][C14_PopStep]_vars

\* The writer holds a full chunk of buffered samples and the buffer goes on
\* with the sample that followed the chunk's last.
C14_Witness ==
    /\ audio_thread = "write"
    /\ SampleLen(chunk) = samples_per_chunk
    /\ At(chunk, 1).pos # 0
    /\ SampleLen(audio_buffer) > 0
    /\ At(audio_buffer, 1).pos = At(chunk, samples_per_chunk).pos + 1

\* ---------------------------------------------------------------------------
\* A step of the emulator host seen from the countdown: the poll that may
\* arm it, or any other step, which is an emulation tick exactly when
\* ticks_since_arm advances.
C15_Step ==
    LET c == post_move_screenshot_frames
        ticked == ticks_since_arm' = ticks_since_arm + 1
    IN  IF ppc = "status" /\ ppc' = "voters"
        THEN \/ post_move_screenshot_frames' = POST_MOVE_SCREENSHOT_FRAMES /\ captures' = 0
             \/ post_move_screenshot_frames' = c /\ captures' = captures
        ELSE /\ c > 0 => post_move_screenshot_frames' = (IF ticked THEN c - 1 ELSE c)
             /\ c = 0 => post_move_screenshot_frames' = 0
             /\ captures' = IF c = 1 /\ ticked THEN captures + 1 ELSE captures

\* C15: after update_state_from_api has set the countdown to 20 it falls
\* by exactly one on each emulator_loop iteration; the iteration that takes
\* it from 1 to 0 captures once; afterwards it stays 0 and no iteration
\* captures again until a poll sets it to 20 again.  So while it is counting
\* the ticks since the arming and the countdown add up to 20, and one
\* arming never yields two captures.
C15_Countdown ==
    /\ [][C15_Step]_vars
    /\ [](post_move_screenshot_frames \in 0..POST_MOVE_SCREENSHOT_FRAMES)
    /\ [](post_move_screenshot_frames > 0 =>
            post_move_screenshot_frames + ticks_since_arm = POST_MOVE_SCREENSHOT_FRAMES)
    /\ [](captures <= 1)
    /\ []((captures = 1) => post_move_screenshot_frames = 0)

\* Armed, counted down to zero, captured once, and ticked on without
\* another capture.
C15_Witness ==
    /\ post_move_screenshot_frames = 0
    /\ captures = 1
    /\ ticks_since_arm = POST_MOVE_SCREENSHOT_FRAMES + 1

\* ---------------------------------------------------------------------------
\* A step of the Emulator that is a press_button call: tick is the step
\* that takes one frame off a running hold.
PressStep ==
    /\ last_press' # None
    /\ ~(hold_frames_remaining > 0 /\ hold_frames_remaining' = hold_frames_remaining - 1)

Recognized(button) == Lower(button) \in VALID_BUTTONS

\* C16: press_button with an identifier that is not one of the eight button
\* names (after lower-casing) returns False and changes nothing: the set of
\* buttons pressed in the emulator, the held button and the remaining hold
\* frames are as before.  No unrecognized identifier is ever pressed or held.
C16_InvalidNoOp ==
    /\ [][ (PressStep /\ ~Recognized(Get(last_press'))) =>
              /\ press_ret' = Some(FALSE)
              /\ UNCHANGED <<held_button, hold_frames_remaining, pyboy_pressed>>
         ]_vars
    /\ [](pyboy_pressed \subseteq VALID_BUTTONS /\ held_button \subseteq VALID_BUTTONS)
    /\ []((last_press # None /\ ~Recognized(Get(last_press))) => press_ret = Some(FALSE))

\* press_button("x") was refused while "a" was held with 5 frames left.
C16_Witness ==
    /\ last_press = Some("x")
    /\ press_ret = Some(FALSE)
    /\ held_button = Some("a")
    /\ pyboy_pressed = {"a"}
    /\ hold_frames_remaining = 5

\* C17: press_button with a recognized identifier returns True; a button
\* held at the call is released before the new one is pressed, so after the
\* call exactly the new button is pressed in the emulator (also when it is
\* the one that was held), it is the held button, and the remaining hold is
\* BUTTON_HOLD_FRAMES = 8 whatever was left of the previous hold.
C17_PressReplaces ==
    /\ [](BUTTON_HOLD_FRAMES = 8)
    /\ [][ (PressStep /\ Recognized(Get(last_press'))) =>
              LET new == Lower(Get(last_press'))
              IN  /\ press_ret' = Some(TRUE)
                  /\ pyboy_pressed' = {new}
                  /\ held_button' = Some(new)
                  /\ hold_frames_remaining' = BUTTON_HOLD_FRAMES
                  /\ \A old \in held_button : old # new => old \notin pyboy_pressed'
         ]_vars
    /\ [](pyboy_pressed = held_button)

\* press_button("B") found another button held and replaced it.
C17_Witness ==
    /\ last_press = Some("B")
    /\ press_over = "other"
    /\ press_ret = Some(TRUE)
    /\ held_button = Some("b")
    /\ pyboy_pressed = {"b"}
    /\ hold_frames_remaining = BUTTON_HOLD_FRAMES

\* ---------------------------------------------------------------------------
\* The step in which send_audio stores a block, the sample value it was
\* given, the value it stored, and the clamped product in tenths.
AppendStep == epc = "append" /\ epc' = "sleep"

StoredSample == appended'[Len(appended')].v

ClampedProduct10 ==
    Clip(audio_data.x * AUDIO_VOLUME_BOOST, INT16_MIN * 10, INT16_MAX * 10)

StreamerNeverStarted ==
    /\ ~running
    /\ video_thread = "unstarted" /\ audio_thread = "unstarted"
    /\ \A p \in Pipes : ~pipe_exists[p]
    /\ ffmpeg_process = "None"
    /\ launches = 0

HostStartupError ==
    program = "emulator" /\ (~RTMP_URL \/ start_outcome = "FileNotFoundError")

CompositorStartupError ==
    program = "compositor" /\ (~OUTPUT_RTMP_URL \/ start_outcome = "FileNotFoundError")

\* C20 as stated: with the destination or the encoder binary missing the
\* process never enters its steady-state loops.
C20_Original ==
    /\ HostStartupError => mpc # "loops"
    /\ CompositorStartupError => cpc \in {"init", "exit"}

\* C20: in the overlay compositor a missing OUTPUT_RTMP_URL or a missing
\* encoder binary ends main: it goes to exit without launching a process,
\* without a second start and without reaching its monitor loop.  In the
\* emulator host neither error ends the process: without RTMP_URL run()
\* goes from its beginning into the loops, and after a start() that found
\* no encoder binary it goes into the loops as well, in both cases with the
\* file preview as output, no encoder process, and no later start().
C20_Startup ==
    /\ [](CompositorStartupError =>
              /\ cpc \in {"init", "exit"}
              /\ process = "None" /\ pipeline_launches = 0)
    /\ [][ (CompositorStartupError /\ cpc # "init") => cpc' = "exit" ]_vars
    /\ [](HostStartupError =>
              /\ output
              /\ launches = 0 /\ ffmpeg_process = "None" /\ ~running
              /\ mpc \notin {"start", "launch"})
    /\ [][ (program = "emulator" /\ ~RTMP_URL /\ mpc = "init" /\ mpc' # "init") =>
              (mpc' = "loops" /\ app_running') ]_vars
    /\ [][ (mpc = "launch" /\ start_outcome' = "FileNotFoundError") =>
              (mpc' = "loops" /\ app_running' /\ ~rtmp_streamer') ]_vars

\* The emulator host runs its loops on the file preview after start() found
\* no encoder binary.
C20_Witness ==
    /\ HostStartupError
    /\ RTMP_URL
    /\ LoopsRunning
    /\ output /\ ~rtmp_streamer

\* ---------------------------------------------------------------------------
\* C21: each pipe file is opened for writing at most once by its writer,
\* and no pipe file is left when the session has ended: after the emulator
\* host's shutdown neither streamer pipe exists, and after the overlay
\* compositor's main has ended (by exit or by its cleanup) the overlay pipe
\* does not exist.
C21_PipeLifecycle ==
    /\ \A p \in Pipes : opens[p] <= 1
    /\ mpc = "done" => \A p \in Pipes : ~pipe_exists[p]
    /\ cpc \in {"exit", "done"} => ~overlay_pipe

\* C22: a poll iteration whose status fetch failed changes nothing of the vote
\* state: the tallies, the time remaining, the last acted-on window, the last
\* winner and its vote count and the snapshot countdown keep their values, no
\* press_button call is made and the held button is untouched; the loop goes
\* on to the voters fetch and from there to the next status poll.
FailedStatusPoll == ppc = "status" /\ status_fetch' = "failed"

C22_Step ==
    FailedStatusPoll =>
        /\ UNCHANGED <<current_tallies, time_remaining, last_window_id,
                       last_winner, last_winner_votes,
                       post_move_screenshot_frames>>
        /\ UNCHANGED <<emuVars, press_count, last_press>>
        /\ ppc' = "voters"
        /\ app_running' = app_running

C22_FailedPollSkips ==
    /\ [][C22_Step]_vars
    /\ [](status_fetch = "failed" => ppc = "voters")

\* A failed status poll has happened while a window had been acted on, a
\* button was held and the snapshot countdown was running.
C22_Witness ==
    /\ status_fetch = "failed"
    /\ last_window_id # None
    /\ last_winner # None
    /\ held_button # None
    /\ post_move_screenshot_frames > 0
    /\ time_remaining > 0

\* C23: the recent-voters list the render loop shows is always the list of
\* the last successful voters fetch (the empty list before any succeeded); a
\* failed voters fetch does not change it.
C23_VotersKept == recent_voters = voters_known

\* C24: save_state and save_screenshot stage their output and rename it into
\* place: the file at a final path is at every moment absent (never written)
\* or a complete version; while a call is in progress it is still what it was
\* when the call began; it changes only in the one step that puts the complete
\* new version there, and that call returns true; a call that returns false
\* has left both final paths as they were.
FinalsComplete ==
    \A kind \in SaveKinds :
        files[FinalPath(kind)] # None => Get(files[FinalPath(kind)]).complete

PreviousKept ==
    save_kind # None => files[FinalPath(Get(save_kind))] = final_at_call

SaveReturns == save_ret' # None /\ (save_ret = None \/ n_saves' # n_saves)

C24_Step ==
    /\ \A kind \in SaveKinds :
          files'[FinalPath(kind)] # files[FinalPath(kind)] =>
              /\ save_kind = Some(kind)
              /\ files'[FinalPath(kind)] =
                     Some([version |-> n_saves, complete |-> TRUE])
              /\ save_ret' = Some(TRUE)
    /\ SaveReturns /\ save_ret' = Some(FALSE) =>
          \A kind \in SaveKinds : files'[FinalPath(kind)] = files[FinalPath(kind)]
    /\ SaveReturns /\ save_ret' = Some(TRUE) =>
          files'[FinalPath(Get(save_kind))] =
              Some([version |-> n_saves, complete |-> TRUE])

C24_AtomicSave ==
    /\ [](FinalsComplete /\ PreviousKept)
    /\ [][C24_Step]_vars

\* A save of the state failed in its write after an earlier save had
\* succeeded: the earlier version is at the final path, the incomplete one at
\* the temporary path, and the call returned false.
C24_Witness ==
    /\ save_ret = Some(FALSE)
    /\ save_kind = None
    /\ files[SAVE_STATE_PATH] = Some([version |-> 1, complete |-> TRUE])
    /\ files[TempPath("state")] = Some([version |-> 2, complete |-> FALSE])

\* C25: a poll that reports a new window whose winner is not a button name
\* records the window as last acted-on, its press_button call returns False
\* and changes nothing in the emulator, and the poll loop goes on; while later
\* polls report that same window no further press_button call is made.
NewWindowUnrecognized ==
    /\ ppc = "status" /\ last_window_id' # last_window_id
    /\ polled_winner'
    /\ ~Recognized(Get(last_press'))

UnrecognizedRun ==
    /\ run_presses >= 1
    /\ last_press # None /\ ~Recognized(Get(last_press))

C25_UnrecognizedWinner ==
    /\ [][ NewWindowUnrecognized =>
              /\ press_ret' = Some(FALSE)
              /\ last_window_id' = observed'
              /\ run_presses' = 1
              /\ UNCHANGED emuVars
              /\ ppc' = "voters" /\ app_running' = app_running
         ]_vars
    /\ [](UnrecognizedRun =>
              /\ last_window_id = observed
              /\ run_presses = 1
              /\ press_ret = Some(FALSE))

\* Window 2 with the winner "x" has been reported twice in a row while "a"
\* was held: one refused press_button call, none on the second poll.
C25_Witness ==
    /\ UnrecognizedRun
    /\ last_press = Some("x")
    /\ observed = Some(2)
    /\ run_len = 2
    /\ held_button = Some("a")

\* C26: a poll that reports a new window identifier with no winner (absent
\* or empty) records the identifier as last acted-on and touches nothing else
\* of the vote state: no press_button call, the held button and its hold
\* counter, the snapshot countdown, the last winner and its vote count are
\* unchanged.
NewWindowNoWinner ==
    /\ ppc = "status" /\ last_window_id' # last_window_id
    /\ ~polled_winner'

C26_Step ==
    NewWindowNoWinner =>
        /\ last_window_id' = observed' /\ last_window_id' # None
        /\ UNCHANGED <<press_count, last_press, press_ret>>
        /\ UNCHANGED <<held_button, hold_frames_remaining, pyboy_pressed>>
        /\ UNCHANGED post_move_screenshot_frames
        /\ UNCHANGED <<last_winner, last_winner_votes>>

C26_NoWinner == [][C26_Step]_vars

\* Window 2 without a winner has just been recorded while "a" of window 1 was
\* held and the countdown was running.
C26_Witness ==
    /\ ppc = "voters" /\ status_fetch = "ok"
    /\ last_window_id = Some(2) /\ run_len = 1 /\ ~polled_winner
    /\ last_winner = Some("a") /\ last_winner_votes = 12
    /\ held_button = Some("a") /\ hold_frames_remaining > 0
    /\ post_move_screenshot_frames > 0
    /\ press_count[2] = 0

\* C27: after press_button has accepted a button and while no further
\* press_button call is made, the button is held for exactly
\* BUTTON_HOLD_FRAMES = 8 ticks: after t < 8 ticks it is still pressed and held
\* with 8 - t frames remaining, the 8th tick releases it, and from then on
\* nothing is pressed or held and the counter is 0.  (Emulator.stop, which
\* ends the emulation, releases whatever is held; no tick follows it.)
TicksSinceInject == ticks_since_arm

C27_TimedRelease ==
    /\ BUTTON_HOLD_FRAMES = 8
    /\ hold_frames_remaining \in 0..BUTTON_HOLD_FRAMES
    /\ press_ret = Some(TRUE) /\ mpc # "done" =>
         IF TicksSinceInject < BUTTON_HOLD_FRAMES
         THEN /\ held_button = Some(Lower(Get(last_press)))
              /\ pyboy_pressed = held_button
              /\ hold_frames_remaining = BUTTON_HOLD_FRAMES - TicksSinceInject
         ELSE /\ held_button = None
              /\ pyboy_pressed = {}
              /\ hold_frames_remaining = 0

\* "a" was injected and released by the 8th tick; two more ticks have passed.
C27_Witness ==
    /\ press_ret = Some(TRUE) /\ last_press = Some("a")
    /\ TicksSinceInject = BUTTON_HOLD_FRAMES + 2 /\ mpc # "done"
    /\ held_button = None /\ hold_frames_remaining = 0 /\ pyboy_pressed = {}

\* C28: a successful start() returns with both writer threads started and
\* still in their pipe opens (no open has completed on the new pipes) and
\* with running = True; a started writer thread finds running = True unless
\* stop() or a writer's error handler has cleared it since.
StartReturnsOk == mpc = "launch" /\ start_outcome' = "ok"

C28_StartDoesNotWait ==
    /\ [][ StartReturnsOk =>
              /\ mpc' = "loops"
              /\ running'
              /\ video_thread' = "open" /\ audio_thread' = "open"
              /\ \A p \in Pipes : reader'[p] = "none" /\ opens'[p] = 0
         ]_vars
    /\ []( /\ (video_thread # "unstarted" \/ audio_thread # "unstarted")
           /\ stop_trace = <<>> /\ ~writer_cleared
           => running )

\* start() has returned True and the stream loop has sent a frame while both
\* writer threads are still blocked in open.
C28_Witness ==
    /\ start_outcome = "ok" /\ mpc = "loops"
    /\ running
    /\ video_thread = "open" /\ audio_thread = "open"
    /\ \A p \in Pipes : opens[p] = 0 /\ reader[p] = "none"
    /\ n_frames >= 1 /\ send_frame_ret = Some(TRUE)

\* C29: a writer thread leaves its pipe open only when the open completes,
\* which takes the reader's open; until then it neither writes nor exits,
\* whatever the running flag is.  stop() nevertheless returns: once begun it
\* gets through its joins, ends the encoder process and removes both pipe
\* files.
WriterAt(p) == IF p = "video" THEN video_thread ELSE audio_thread

StopBegun == mpc = "stop_clear"

C29_StopTerminates ==
    /\ [][ \A p \in Pipes :
              (WriterAt(p) = "open" /\ WriterAt(p)' # "open") =>
                  /\ opens'[p] = opens[p] + 1
                  /\ reader'[p] = "open"
         ]_vars
    /\ [](\A p \in Pipes : WriterAt(p) = "open" => reader[p] = "none")
    /\ StopBegun ~> ( /\ StopReturned
                      /\ ffmpeg_process # "alive"
                      /\ \A p \in Pipes : ~pipe_exists[p] )

\* stop() has returned, with the process ended and the pipes removed, while
\* both writer threads are still in the opens no reader ever answered.
C29_Witness ==
    /\ StopReturned
    /\ ~running
    /\ video_thread = "open" /\ audio_thread = "open"
    /\ \A p \in Pipes : opens[p] = 0 /\ ~pipe_exists[p]
    /\ ffmpeg_process = "exited"

\* C30: in the overlay compositor the readiness event is set by the step in
\* which the writer's pipe open completes and is never set while that open
\* has not completed; main's readiness wait always ends, and when it ends
\* without the event (ffmpeg has not opened the pipe) main stops ffmpeg and
\* exits rather than entering its monitor loop.
ReadinessWaitEnds == cpc = "wait_pipe" /\ cpc' # "wait_pipe"

C30_Readiness ==
    /\ [](pipe_ready => overlay_thread \in {"loop", "done"} /\ overlay_reader # "none")
    /\ [](overlay_thread \in {"unstarted", "open"} => ~pipe_ready)
    /\ [][ pipe_ready' # pipe_ready =>
              /\ pipe_ready' /\ overlay_thread = "open" /\ overlay_thread' = "loop"
              /\ overlay_reader' = "open"
         ]_vars
    /\ [][ ReadinessWaitEnds =>
              IF pipe_ready
              THEN cpc' = "monitor" /\ process' = process
              ELSE cpc' = "exit" /\ process' = "exited" /\ ~pipe_ready'
         ]_vars
    /\ [](cpc = "exit" /\ start_outcome = "ok" => ~pipe_ready /\ process = "exited")
    /\ (cpc = "wait_pipe") ~> (cpc \in {"monitor", "exit"})

\* ffmpeg started and never opened the overlay pipe: main has given up, the
\* process is stopped, the event was never set and the writer is still in
\* its open.
C30_Witness ==
    /\ program = "compositor"
    /\ cpc = "exit" /\ start_outcome = "ok"
    /\ process = "exited"
    /\ ~pipe_ready
    /\ overlay_thread = "open" /\ overlay_reader = "none"

\* C31: the flag is observed at the top of a writer's loop only.  With the
\* flag cleared, a writer past its pipe open that is at the loop test leaves
\* the loop (its thread ends, closing the pipe) and starts no further
\* iteration, so it completes at most the write of the iteration that was in
\* progress when the flag was cleared; the flag is not set again while a
\* writer runs; and every such writer eventually ends.
InLoop(p) == WriterAt(p) \in {"loop", "get", "timer", "write"}

C31_CooperativeCancel ==
    /\ [][ \A p \in Pipes :
              (~running /\ WriterAt(p) = "loop" /\ WriterAt(p)' # "loop")
                  => WriterAt(p)' = "done"
         ]_vars
    /\ [][ \A p \in Pipes :
              (~running /\ WriterAt(p)' = "write" /\ WriterAt(p) # "write")
                  => WriterAt(p) \in {"get", "timer"}
         ]_vars
    /\ [][ (~running /\ \E p \in Pipes : InLoop(p)) => ~running' ]_vars
    /\ [][ (~overlay_running /\ overlay_thread = "loop") =>
              overlay_thread' \in {"loop", "done"} /\ ~overlay_running' ]_vars
    /\ (~running /\ InLoop("video")) ~> (video_thread = "done")
    /\ (~running /\ InLoop("audio")) ~> (audio_thread = "done")
    /\ (~overlay_running /\ overlay_thread = "loop") ~> (overlay_thread = "done")

\* stop() cleared the flag while the video writer, its pipe open, was in its
\* loop; the writer saw the flag at a loop test and ended without an error.
C31_Witness ==
    /\ ~running /\ ~writer_cleared
    /\ stop_trace # <<>>
    /\ video_thread = "done"
    /\ opens["video"] = 1
    /\ writer_error["video"] = "none"

\* The position, in the appended stream, of the oldest sample that has not
\* left the buffer: everything before it was handed to the writer or trimmed.
NextPos(buf, app) == SampleLen(app) - SampleLen(buf) + 1

C32_StepOk ==
    LET next == NextPos(audio_buffer, appended)
        nextAfter == NextPos(audio_buffer', appended')
        d == DataLen(chunk')
        popped == audio_thread = "timer" /\ audio_thread' = "write"
        appending == appended' # appended
        grown == SampleLen(audio_buffer) + SampleLen(appended') - SampleLen(appended)
    IN  /\ nextAfter >= next
        /\ popped =>
             /\ appended' = appended
             /\ nextAfter = next + d
             /\ \A i \in RunEnds(chunk', 0) :
                    IF i <= d
                    THEN At(chunk', i) = [pos |-> next + i - 1, v |-> At(appended, next + i - 1).v]
                    ELSE At(chunk', i) = [pos |-> 0, v |-> 0]
        /\ appending =>
             /\ chunk' = chunk
             /\ nextAfter - next = (IF grown > max_samples THEN grown - max_samples ELSE 0)
        /\ ~popped /\ ~appending =>
             /\ nextAfter = next
             /\ chunk' = chunk \/ (audio_thread = "write" /\ chunk' = <<>>)

C33_IsRunning ==
    /\ [](pipeline_launches = 0 => ~IsRunning)
    /\ [](IsRunning => process = "alive" /\ pipeline_launches = 1)
    /\ [](process = "exited" => ~IsRunning)
    /\ [][process = "exited" => process' = "exited"]_vars
    /\ [][ (cpc = "monitor" /\ cpc' # "monitor") =>
              (shutdown_event \/ ~IsRunning) /\ cpc' = "stop_writer" ]_vars
    /\ (cpc = "monitor" /\ ~IsRunning) ~>
          ( /\ cpc = "done"
            /\ ~overlay_running
            /\ process = "exited"
            /\ ~overlay_pipe )

\* ffmpeg died in the monitor loop with no shutdown requested, and main has
\* finished its cleanup.
C33_Witness ==
    /\ cpc = "done"
    /\ ~shutdown_event
    /\ pipe_ready
    /\ process = "exited" /\ ~overlay_running /\ ~overlay_pipe

\* C34 as stated: after a poll response with a malformed tally entry the
\* poll loop is still running (the orchestrator is in its loops with its
\* running flag set), ready for the next poll.
C34_MalformedRecoverable ==
    status_fetch = "malformed" => (app_running /\ mpc = "loops")

\* The frames of the queue are in the order of their send_frame calls.
QueueAscending ==
    \A i \in 1..Len(frame_queue) :
        /\ frame_queue[i] \in 1..n_frames
        /\ i > 1 => frame_queue[i - 1] < frame_queue[i]

C35_StepOk ==
    LET got == video_thread = "get" /\ video_thread' = "write"
        returned == rpc # "sleep" /\ rpc' = "sleep"
    IN  /\ got =>
             /\ frame_queue # <<>>
             /\ frame_bytes' = Head(frame_queue)
             /\ frame_queue' = Tail(frame_queue)
        /\ ~got =>
             /\ frame_bytes' \in {frame_bytes, 0}
             /\ frame_queue' # frame_queue =>
                    /\ frame_queue' = Append(frame_queue, n_frames)
                    /\ returned /\ send_frame_ret' = Some(TRUE)
        /\ (returned /\ send_frame_ret' = Some(FALSE)) =>
             frame_queue' = frame_queue
        /\ (returned /\ send_frame_ret' = Some(TRUE)) =>
             frame_queue' = Append(frame_queue, n_frames)

\* C35: the video writer writes frames in the order they were accepted.  The
\* queue holds accepted frames in the order of their send_frame calls, the
\* writer always takes the oldest one, and the frame it holds is older than
\* every queued one, so the frames written are, in order, a subsequence of
\* the accepted frames and none is written twice; a frame enters the queue
\* only in the send_frame call that returns True for it, so a frame whose
\* call returned False is never written.
C35_FifoOrder ==
    /\ [](QueueAscending)
    /\ [](frame_bytes # 0 =>
             /\ frame_bytes \in 1..n_frames
             /\ \A i \in 1..Len(frame_queue) : frame_bytes < frame_queue[i])
    /\ [][C35_StepOk]_vars

\* The writer holds a frame that is not the first while newer frames wait,
\* and the latest send_frame call was refused.
C35_Witness ==
    /\ video_thread = "write"
    /\ frame_bytes >= 2
    /\ Len(frame_queue) >= 2
    /\ send_frame_ret = Some(FALSE)
    /\ n_frames > frame_queue[Len(frame_queue)]

\* C36: every window whose winner was injected gets its own deferred
\* snapshot, taken when the countdown armed by its injection has run its 20
\* ticks.  For that, a countdown that is still running must be left to run
\* out: the only changes of a positive countdown are its decrements.
C36_OwnSnapshot ==
    [][post_move_screenshot_frames > 0 =>
          post_move_screenshot_frames' \in
              {post_move_screenshot_frames, post_move_screenshot_frames - 1}]_vars

\* Frames the game is given to react after the release, before the snapshot.
ReactionFrames == POST_MOVE_SCREENSHOT_FRAMES - BUTTON_HOLD_FRAMES

\* C37: the deferred snapshot is never captured while a vote-injected button
\* is held.  Between two iterations of the emulator loop, while hold frames
\* remain the countdown is at least the remaining hold frames plus 12, and
\* the iteration in which the countdown reaches zero starts with no button
\* held.
C37_SnapshotAfterRelease ==
    /\ [](epc = "sleep" /\ hold_frames_remaining > 0 =>
             post_move_screenshot_frames >= hold_frames_remaining + ReactionFrames)
    /\ [][(post_move_screenshot_frames > 0 /\ post_move_screenshot_frames' = 0) =>
             (hold_frames_remaining = 0 /\ held_button = None)]_vars

\* The button of a second window is in its last hold frame, 13 ticks before
\* the snapshot.
C37_Witness ==
    /\ epc = "sleep"
    /\ press_count[1] = 1 /\ press_count[2] = 1
    /\ hold_frames_remaining = 1
    /\ post_move_screenshot_frames = 1 + ReactionFrames

\* shutdown() runs in the task of run(); apart from the await of
\* session.close() its steps are those of RTMPStreamer.stop() and
\* Emulator.stop(), none of which waits without bound.
ShutdownSteps ==
    \/ \E ok \in BOOLEAN : SessionClose(ok)
    \/ StopSteps
    \/ EmulatorStop

SpecShutdownFair == SpecStream /\ WF_vars(ShutdownSteps)

\* C38: once shutdown() has begun it always goes on to rtmp_streamer.stop()
\* (when a streamer exists) and Emulator.stop(), also when the await of
\* session.close() ends with an exception or a cancellation.
C38_ShutdownCompletes ==
    (mpc = "session_close") ~>
        (mpc = "done" /\ (rtmp_streamer => (StopReturned /\ \A p \in Pipes : ~pipe_exists[p])))

\* A pipe error during a streamed session with votes: the emulator loop, the
\* stream loop and the video writer, an encoder that closes its end of the
\* video pipe on its own, and polls that report window 5 and window 6, each
\* won by "a".  The audio writer stays in its pipe open.
FailureStatuses ==
    { Script[1], [Script[1] EXCEPT !.prev = Some(PrevResult(6, Some("a"), 12))] }

NextFailure ==
    \/ RunBegin
    \/ StartPipes
    \/ StartLaunch("ok")
    \/ ReaderConnect("video")
    \/ ReaderClose("video")
    \/ VideoWriter
    \/ StreamLoopUpTo(MaxLifecycleFrames)
    \/ SendFrameCheck
    \/ SendFrameRender(TRUE)
    \/ SendFramePut
    \/ EmulatorLoop(MediaBlock)
    \/ SendAudioCheck
    \/ SendAudioAppend(AUDIO_VOLUME_BOOST)
    \/ \E s \in FailureStatuses : PollStatus(Some(s))
    \/ PollVoters(Some(<<>>))

SpecFailure == InitStream /\ [][NextFailure]_vars

\* The streamer was started and a writer thread has cleared its running flag.
StreamFailed == program = "emulator" /\ mpc = "loops" /\ rtmp_streamer /\ ~running

\* ... and no send_frame or send_audio call that read the flag before it was
\* cleared is still in progress.
FailureSettled ==
    /\ StreamFailed
    /\ rpc \in {"sleep", "send_frame"}
    /\ epc \in {"sleep", "send_audio"}

Dec(n) == IF n > 0 THEN n - 1 ELSE 0

\* One iteration of the emulator loop, as without a streamer; in an iteration
\* that was at its send_audio call when the flag was cleared, the tick has
\* been made and the countdown follows.
TickEffect ==
    /\ IF epc = "sleep"
       THEN /\ hold_frames_remaining' = Dec(hold_frames_remaining)
            /\ held_button' = IF hold_frames_remaining' = 0 THEN None ELSE held_button
       ELSE UNCHANGED emuVars
    /\ post_move_screenshot_frames' = Dec(post_move_screenshot_frames)
    /\ captures' = IF post_move_screenshot_frames = 1
                   THEN Min(captures + 1, 2) ELSE captures
    /\ last_window_id' = last_window_id

\* The injection of a new window's winner.
InjectEffect ==
    /\ last_window_id' # last_window_id
    /\ hold_frames_remaining' = BUTTON_HOLD_FRAMES
    /\ held_button' = Some("a")
    /\ pyboy_pressed' = {"a"}
    /\ post_move_screenshot_frames' = POST_MOVE_SCREENSHOT_FRAMES

C39_StepOk ==
    FailureSettled =>
        /\ FailureSettled'
        /\ (emuVars' # emuVars \/ shotVars' # shotVars \/ last_window_id' # last_window_id)
              => (TickEffect \/ InjectEffect)
        /\ (rpc # rpc') =>
              (rpc = "send_frame" /\ rpc' = "sleep" /\ send_frame_ret' = Some(FALSE))
        /\ (epc # epc') =>
              (epc = "send_audio" /\ epc' = "sleep" /\ send_audio_ret' = Some(FALSE))
        /\ appended' = appended /\ audio_buffer' = audio_buffer
        /\ frame_queue' = frame_queue
        /\ (n_frames' # n_frames) => rpc = "send_frame"

\* C39: a stream failure does not stop the game.  Once a pipe error has
\* cleared the streamer's running flag, the emulator loop can always take its
\* next iteration and the poll loop its next poll, an iteration ticks the
\* hold and the snapshot countdown as it does without a streamer, a new
\* window's winner is injected with its hold and countdown, every send_frame
\* and send_audio call returns False leaving the frame queue and the audio
\* buffer as they were, the stream loop enters no further send_frame, and
\* there is no preview output to take the frames instead.
C39_GameGoesOn ==
    /\ [](StreamFailed => ~output)
    /\ [](FailureSettled /\ AsyncIdle => ENABLED EmulatorLoop(MediaBlock))
    /\ [](FailureSettled /\ AsyncIdle /\ ppc = "status" =>
             \A s \in FailureStatuses : ENABLED PollStatus(Some(s)))
    /\ [][C39_StepOk]_vars

\* After a broken video pipe the send_audio call in progress was refused,
\* both windows were injected and the second one's snapshot was captured.
C39_Witness ==
    /\ FailureSettled
    /\ writer_error["video"] # "none"
    /\ send_audio_ret = Some(FALSE)
    /\ press_count[5] = 1 /\ press_count[6] = 1
    /\ post_move_screenshot_frames = 0 /\ captures = 1

\* Emulator.stop(), emulator.py:323-336: the release of the held button (the
\* final save_state() is the save modelled by SaveOpen, SaveWrite, SaveReplace)
StopCall ==
    /\ program = "emulator" /\ mpc = "init"
    /\ ReleaseCurrentButton
    /\ UNCHANGED <<program, fileVars, AUDIO_VOLUME_BOOST, start_outcome, fetchVars, overlayVars, stop_trace, appVars, loopVars, voteVars, shotVars,
                   running, procVars, videoVars, audioVars, frameLogVars,
                   audioLogVars, writerLogVars, pollLogVars>>

\* The Emulator object with press_button, tick and stop called in any order.
NextHold ==
    \/ NextEmulator
    \/ StopCall

SpecHold == InitVote /\ [][NextHold]_vars

\* What a step does to the buttons pressed in the console: nothing, the
\* release of the held button, or a press made after the release of whatever
\* was held.
C40_StepOk ==
    \/ /\ pyboy_pressed' = pyboy_pressed
       /\ held_button' = held_button
    \/ /\ held_button # None
       /\ held_button' = None
       /\ pyboy_pressed' = {}
    \/ /\ \E b \in VALID_BUTTONS : held_button' = Some(b)
       /\ pyboy_pressed' = held_button'
       /\ hold_frames_remaining' = BUTTON_HOLD_FRAMES

\* C40: after any sequence of press_button, tick and stop calls a button is
\* recorded as held exactly when hold frames remain, the buttons pressed in
\* the console are exactly the held one (so at most one), and buttons change
\* only by the release of the held button or by a press that follows the
\* release of the one held before.
C40_HoldState ==
    /\ [](held_button # None <=> hold_frames_remaining > 0)
    /\ [](hold_frames_remaining \in 0..BUTTON_HOLD_FRAMES)
    /\ [](pyboy_pressed = held_button /\ Cardinality(pyboy_pressed) <= 1)
    /\ [][C40_StepOk]_vars

\* press_button("B") has replaced another held button and three ticks of
\* the new hold have passed.
C40_Witness ==
    /\ last_press = Some("B") /\ press_over = "other"
    /\ held_button = Some("b") /\ pyboy_pressed = {"b"}
    /\ hold_frames_remaining = BUTTON_HOLD_FRAMES - 3

=============================================================================
